---- MODULE Spec2Model ----
(***************************************************************************)
(* A model of the PDF split tool (PDFSplitTool, src/unnamed/part_000):     *)
(* the component's React state, its event handlers, the two asynchronous   *)
(* operations loadPDF and processPDF, and the pure computations they make  *)
(* (range-string parsing, fixed-size partitioning, output naming).         *)
(*                                                                         *)
(* Strings the code takes apart character by character (the range input)   *)
(* are sequences of one-character strings; strings the code only builds    *)
(* (file and entry names) are TLA+ strings.                                *)
(***************************************************************************)
EXTENDS Integers, Sequences, FiniteSets, TLC

(***************************************************************************)
(* Bounds of the model.                                                    *)
(***************************************************************************)
\* Largest number of pages of a document the user can choose in Spec.
MaxPages == 2
\* Largest chunk size the user types into the fixed-range input in Spec.
MaxChunk == 2
\* Number of distinct values Date.now() takes in Spec and its restrictions.
MaxTime == 1
\* Number of distinct values Date.now() takes in SplitSpec.
MaxSplitTime == 2
\* Largest document in UrlSpec.
MaxUrlPages == 2
\* Object URLs nothing refers to any more are counted up to MaxLost.
MaxLost == 1
\* Longest range string enumerated exhaustively in ParseSpec.
MaxLen == 4
\* Largest document whose page lists are enumerated exhaustively in ParseSpec.
MaxParsePages == 2
\* Largest document and chunk size in CustomSpec and FixedSpec.
MaxFlowPages == 3
MaxFlowChunk == 3
\* Largest document and chunk size enumerated exhaustively in SplitSpec.
MaxSplitPages == 4
MaxSplitChunk == 5
\* The PDF compressor: pages per document, estimation runs in flight.
MaxCompressPages == 2
MaxEstimations == 2
\* The merge tool: files added in all, files of one file dialog.
MaxItems == 3
MaxBatch == 2
MaxMoveItems == 3
\* The watermark tool: files to choose from, settings away from their
\* initial value at a time.
MaxWatermarkFiles == 1
MaxChanged == 1

(***************************************************************************)
(* JavaScript string and number helpers.                                   *)
(***************************************************************************)
Digits == <<"0", "1", "2", "3", "4", "5", "6", "7", "8", "9">>

IsDigit(c) == \E d \in 1..10 : Digits[d] = c

DigitVal(c) == (CHOOSE d \in 1..10 : Digits[d] = c) - 1

\* `${n}` in a template literal, for an integer n >= 0: its decimal digits.
RECURSIVE NumStr(_)
NumStr(n) ==
  IF n < 10 THEN Digits[n + 1]
  ELSE NumStr(n \div 10) \o Digits[(n % 10) + 1]

\* Characters String.prototype.trim and Number strip (of the model's alphabet).
IsSpace(c) == c = " "

\* String.prototype.trim.
RECURSIVE Trim(_)
Trim(s) ==
  IF s = <<>> THEN s
  ELSE IF IsSpace(Head(s)) THEN Trim(Tail(s))
  ELSE IF IsSpace(s[Len(s)]) THEN Trim(SubSeq(s, 1, Len(s) - 1))
  ELSE s

\* String.prototype.split with a one-character separator: "" gives [""],
\* "a,,b" gives ["a", "", "b"].
RECURSIVE Split(_, _)
Split(s, sep) ==
  IF \A i \in 1..Len(s) : s[i] # sep THEN <<s>>
  ELSE LET i == CHOOSE j \in 1..Len(s) :
                  s[j] = sep /\ \A h \in 1..(j - 1) : s[h] # sep
       IN <<SubSeq(s, 1, i - 1)>> \o Split(SubSeq(s, i + 1, Len(s)), sep)

\* The value Number gives for a string that is not a numeric literal. Number
\* never gives a negative value here: applyRange splits on "-" before it
\* converts, so no sign reaches Number.
NaN == -1

isNaN(v) == v = NaN

RECURSIVE DecimalValue(_)
DecimalValue(s) ==
  IF s = <<>> THEN 0
  ELSE 10 * DecimalValue(SubSeq(s, 1, Len(s) - 1)) + DigitVal(s[Len(s)])

\* The value Number gives for "Infinity". It stands as the largest integer
\* of the model checker: greater than every finite value a range string of
\* the model denotes, and never added to.
Infinity == 2147483647

InfinityLiteral == <<"I", "n", "f", "i", "n", "i", "t", "y">>

RECURSIVE Pow10(_)
Pow10(k) == IF k = 0 THEN 1 ELSE 10 * Pow10(k - 1)

\* A decimal literal with an exponent part, digits e digits, as in 1e9.
IsExponent(t) ==
  \E k \in 2..(Len(t) - 1) :
     /\ t[k] \in {"e", "E"}
     /\ \A h \in (1..Len(t)) \ {k} : IsDigit(t[h])

ExponentValue(t) ==
  LET k == CHOOSE j \in 2..(Len(t) - 1) : t[j] \in {"e", "E"}
  IN DecimalValue(SubSeq(t, 1, k - 1))
       * Pow10(DecimalValue(SubSeq(t, k + 1, Len(t))))

\* Number(s) on the model's alphabet (digits, space, letters): surrounding
\* whitespace is stripped, the empty string is 0, a run of decimal digits is
\* its value, so is a run of digits with an exponent, "Infinity" is
\* Infinity, anything else is NaN.
Number(s) ==
  LET t == Trim(s)
  IN IF t = <<>> THEN 0
     ELSE IF \A i \in 1..Len(t) : IsDigit(t[i]) THEN DecimalValue(t)
     ELSE IF t = InfinityLiteral THEN Infinity
     ELSE IF IsExponent(t) THEN ExponentValue(t)
     ELSE NaN

Min(a, b) == IF a < b THEN a ELSE b

Max(a, b) == IF a > b THEN a ELSE b

\* Math.ceil(a / b) for integers a >= 0, b >= 1.
Ceil(a, b) == IF a % b = 0 THEN a \div b ELSE (a \div b) + 1

\* Math.round((i / total) * 100) for integers 0 <= i <= total, total >= 1.
RoundPercent(i, total) == ((200 * i) + total) \div (2 * total)

(***************************************************************************)
(* applyRange: the range parser (lines 122-140).                           *)
(***************************************************************************)
\* part.trim().split('-').map(Number)
RangeOf(part) ==
  LET pieces == Split(Trim(part), "-")
  IN [k \in 1..Len(pieces) |-> Number(pieces[k])]

\* PartIndices without the min/max normalisation of a reversed range.
PartIndicesNoSwap(part, n) ==
  LET range == RangeOf(part)
  IN IF Len(range) = 1 /\ ~isNaN(range[1])
     THEN IF range[1] > 0 /\ range[1] <= n THEN {range[1] - 1} ELSE {}
     ELSE IF Len(range) = 2 /\ ~isNaN(range[1]) /\ ~isNaN(range[2])
     THEN {i - 1 : i \in {j \in range[1]..range[2] : j > 0 /\ j <= n}}
     ELSE {}

\* PartIndices without the upper bound checks against pages.length.
PartIndicesUnclamped(part, n) ==
  LET range == RangeOf(part)
  IN IF Len(range) = 1 /\ ~isNaN(range[1])
     THEN IF range[1] > 0 THEN {range[1] - 1} ELSE {}
     ELSE IF Len(range) = 2 /\ ~isNaN(range[1]) /\ ~isNaN(range[2])
     THEN LET start == Min(range[1], range[2])
              end == Max(range[1], range[2])
          IN {i - 1 : i \in {j \in start..end : j > 0}}
     ELSE {}

\* PartIndices adding a single page number as if it were zero-based.
PartIndicesOneBased(part, n) ==
  LET range == RangeOf(part)
  IN IF Len(range) = 1 /\ ~isNaN(range[1])
     THEN IF range[1] > 0 /\ range[1] <= n THEN {range[1]} ELSE {}
     ELSE IF Len(range) = 2 /\ ~isNaN(range[1]) /\ ~isNaN(range[2])
     THEN LET start == Min(range[1], range[2])
              end == Max(range[1], range[2])
          IN {i - 1 : i \in {j \in start..end : j > 0 /\ j <= n}}
     ELSE {}

\* The indices the forEach callback adds to selectedIndices for one part,
\* over a page list of length n.
PartIndices(part, n) ==
  LET range == RangeOf(part)
  IN IF Len(range) = 1 /\ ~isNaN(range[1])
     THEN IF range[1] > 0 /\ range[1] <= n THEN {range[1] - 1} ELSE {}
     ELSE IF Len(range) = 2 /\ ~isNaN(range[1]) /\ ~isNaN(range[2])
     THEN LET start == Min(range[1], range[2])
              end == Max(range[1], range[2])
          IN {i - 1 : i \in {j \in start..end : j > 0 /\ j <= n}}
     ELSE {}

\* selectedIndices after the forEach over rangeInput.split(',').
SelectedIndices(input, n) ==
  LET parts == Split(input, ",")
  IN UNION {PartIndices(parts[k], n) : k \in 1..Len(parts)}

(***************************************************************************)
(* processPDF: the documents and archives it builds (lines 157-214).       *)
(*                                                                         *)
(* A PDF document is the sequence of the source page indices copied into   *)
(* it; a JSZip archive is the sequence of its entries, each a name and a   *)
(* document; a blob is a record of either.                                 *)
(***************************************************************************)
\* const start = i * fixedRange
ChunkStart(i, k) == i * k

\* const end = Math.min(start + fixedRange, pages.length)
ChunkEnd(i, k, n) == Min(ChunkStart(i, k) + k, n)

\* Array.from({length: end - start}, (_, k) => k + start)
ChunkIndices(i, k, n) ==
  LET start == ChunkStart(i, k)
      end == ChunkEnd(i, k, n)
  IN [j \in 1..(end - start) |-> (j - 1) + start]

\* ChunkFilename numbering the parts from 0.
ChunkFilenameZeroBased(i, k, n) ==
  "part_" \o NumStr(i) \o "_pages_" \o NumStr(ChunkStart(i, k) + 1)
    \o "-" \o NumStr(ChunkEnd(i, k, n)) \o ".pdf"

\* `part_${i + 1}_pages_${start + 1}-${end}.pdf`
ChunkFilename(i, k, n) ==
  "part_" \o NumStr(i + 1) \o "_pages_" \o NumStr(ChunkStart(i, k) + 1)
    \o "-" \o NumStr(ChunkEnd(i, k, n)) \o ".pdf"

\* PageFilename with the zero-based index.
PageFilenameZeroBased(index) == "page_" \o NumStr(index) \o ".pdf"

\* `page_${page.index + 1}.pdf`
PageFilename(index) == "page_" \o NumStr(index + 1) \o ".pdf"

\* ChunkCount rounding down: Math.floor for Math.ceil.
ChunkCountFloor(n, k) == n \div k

\* ChunkCount rounding to the nearest: Math.round for Math.ceil.
ChunkCountRound(n, k) == ((2 * n) + k) \div (2 * k)

\* Math.ceil(pages.length / fixedRange)
ChunkCount(n, k) == Ceil(n, k)

\* zip.file(name, data): adds the entry, or replaces the entry of that name.
ZipFile(zip, name, data) ==
  IF \E e \in 1..Len(zip) : zip[e].name = name
  THEN [e \in 1..Len(zip) |->
          IF zip[e].name = name THEN [name |-> name, doc |-> data] ELSE zip[e]]
  ELSE Append(zip, [name |-> name, doc |-> data])

\* The for loop over the chunks, from chunk i on (lines 162-175).
RECURSIVE FixedZip(_, _, _, _)
FixedZip(zip, i, k, n) ==
  IF i < ChunkCount(n, k)
  THEN FixedZip(ZipFile(zip, ChunkFilename(i, k, n), ChunkIndices(i, k, n)),
                i + 1, k, n)
  ELSE zip

\* pages.filter(p => p.selected)
SelectedPages(ps) == SelectSeq(ps, LAMBDA p : p.selected)

\* selectedPages.map(p => p.index)
PageIndexes(ps) == [j \in 1..Len(ps) |-> ps[j].index]

\* The for loop over the selected pages, from position j on (lines 202-209).
RECURSIVE SeparateZip(_, _, _)
SeparateZip(zip, selectedPages, j) ==
  IF j <= Len(selectedPages)
  THEN SeparateZip(ZipFile(zip, PageFilename(selectedPages[j].index),
                           <<selectedPages[j].index>>),
                   selectedPages, j + 1)
  ELSE zip

NoBlob == [type |-> "none", doc |-> <<>>, entries |-> <<>>]

PdfBlob(doc) == [type |-> "pdf", doc |-> doc, entries |-> <<>>]

ZipBlob(zip) == [type |-> "zip", doc |-> <<>>, entries |-> zip]

\* newDoc.copyPages(srcDoc, indices) throws for an index srcDoc does not have.
CanCopy(numPages, indices) ==
  \A j \in 1..Len(indices) : indices[j] >= 0 /\ indices[j] < numPages

\* The archive with every entry name prefixed by the timestamp.
StampedZip(zip, timestamp) ==
  [e \in 1..Len(zip) |->
     [name |-> NumStr(timestamp) \o "_" \o zip[e].name, doc |-> zip[e].doc]]

\* ProcessOutcome naming the entries of an archive after the timestamp too.
ProcessOutcomeStamped(c, timestamp) ==
  IF c.mode = "fixed"
  THEN [returned |-> FALSE,
        url |-> ZipBlob(StampedZip(FixedZip(<<>>, 0, c.fixedRange,
                                            Len(c.pages)), timestamp)),
        filename |-> "split_fixed_" \o NumStr(timestamp) \o ".zip"]
  ELSE LET selectedPages == SelectedPages(c.pages)
       IN IF Len(selectedPages) = 0
          THEN [returned |-> TRUE, url |-> NoBlob, filename |-> ""]
          ELSE IF c.outputMode = "single"
          THEN [returned |-> FALSE,
                url |-> PdfBlob(PageIndexes(selectedPages)),
                filename |-> "extracted_" \o NumStr(timestamp) \o ".pdf"]
          ELSE [returned |-> FALSE,
                url |-> ZipBlob(StampedZip(SeparateZip(<<>>, selectedPages, 1),
                                           timestamp)),
                filename |-> "extracted_pages_" \o NumStr(timestamp) \o ".zip"]

\* What processPDF hands to setResultUrl and setResultFilename when no call
\* throws; "returned" is the early return of line 184. c is the render's
\* closure (file, pages, mode, outputMode, fixedRange).
ProcessOutcome(c, timestamp) ==
  IF c.mode = "fixed"
  THEN [returned |-> FALSE,
        url |-> ZipBlob(FixedZip(<<>>, 0, c.fixedRange, Len(c.pages))),
        filename |-> "split_fixed_" \o NumStr(timestamp) \o ".zip"]
  ELSE LET selectedPages == SelectedPages(c.pages)
       IN IF Len(selectedPages) = 0
          THEN [returned |-> TRUE, url |-> NoBlob, filename |-> ""]
          ELSE IF c.outputMode = "single"
          THEN [returned |-> FALSE,
                url |-> PdfBlob(PageIndexes(selectedPages)),
                filename |-> "extracted_" \o NumStr(timestamp) \o ".pdf"]
          ELSE [returned |-> FALSE,
                url |-> ZipBlob(SeparateZip(<<>>, selectedPages, 1)),
                filename |-> "extracted_pages_" \o NumStr(timestamp) \o ".zip"]

\* Every page index processPDF asks copyPages for.
CopiedIndexes(c) ==
  IF c.mode = "fixed"
  THEN 0..(Len(c.pages) - 1)
  ELSE {c.pages[j].index : j \in {h \in 1..Len(c.pages) : c.pages[h].selected}}

(***************************************************************************)
(* The component's state.                                                  *)
(***************************************************************************)
VARIABLES
  file,             \* useState<File | null>: NoFile, or the chosen file
  pages,            \* useState<PagePreview[]>: records [index, selected]
  mode,             \* 'custom' | 'fixed'
  outputMode,       \* 'single' | 'separate'
  fixedRange,       \* chunk size
  isLoading,
  isProcessing,
  rangeInput,       \* the range text box, a sequence of characters
  loadingProgress,
  resultUrl,        \* null (NoBlob), or the blob the object URL names
  resultFilename,
  loadTask,         \* the loadPDF call in flight, with its locals
  procTask,         \* the processPDF call in flight, with its closure
  last,             \* the handler that ran last, with its locals
  mounted,          \* the component is mounted (App renders it, line 515)
  revoked,          \* the object URLs held in pages / resultUrl that
                    \* URL.revokeObjectURL was called on
  lost              \* how many object URLs were created, never revoked and
                    \* are held by no state and no running call

\* applyRange's forEach and for loop, when followed statement by statement.
VARIABLES
  applyTask         \* the applyRange call in progress, with its locals

\* PDFCompressorTool (src/components/PDFCompressorTool.tsx, lines 19-344).
VARIABLES
  compressorFile,   \* useState<File | null> file (line 20)
  processing,
  progress,         \* NoProgress (null), or [current, total]
  result,           \* NoResult (null), or the result with the file it is of
  quality,
  scale,
  estimatedSize,    \* NoEstimate (null), or the file the estimate is of
  isEstimating,
  timer,            \* the debounce timer of the estimation effect
  estimations,      \* the estimation runs in progress, each with its closure
  compressTask,     \* the compressPDF call in flight, with its locals
  compressorLast    \* the compressor's step that ran last

\* PDFMergeTool (src/unnamed/part_003, lines 577-843).
VARIABLES
  items,            \* useState<PdfFileItem[]>: [id, previewUrl, isLoadingPreview]
  mergeIsProcessing,
  mergedPdfUrl,     \* null (NoUrl), or the ids the merged document was made of
  renderedItems,    \* items as of the render whose handlers are attached
  thumbnails,       \* the handleFileChange calls still generating thumbnails
  mergeTask,        \* the mergePDFs call in flight, with its closure
  nextId,           \* the ids handed out so far
  mergeLast         \* the merge tool's step that ran last

\* PDFWatermarkTool (src/unnamed/part_003, lines 17-434).
VARIABLES
  watermarkFile,    \* useState<File | null> file (line 19)
  settings,         \* the watermark settings (lines 23-39), by name
  watermarkIsProcessing,
  watermarkResultUrl, \* null (NoUrl), or the file and settings it was made of
  watermarkTask     \* the processPDF call in flight, with its closure

\* App (src/unnamed/part_003, lines 449-552).
VARIABLES
  currentView,
  recentTools,
  localStorage      \* the JSON text stored under 'recent_tools', as its
                    \* sequence of tokens, or NoItem

splitVars ==
  <<file, pages, mode, outputMode, fixedRange, isLoading, isProcessing,
    rangeInput, loadingProgress, resultUrl, resultFilename, loadTask,
    procTask, last, mounted, revoked, lost>>

compressorVars ==
  <<compressorFile, processing, progress, result, quality, scale,
    estimatedSize, isEstimating, timer, estimations, compressTask,
    compressorLast>>

mergeVars ==
  <<items, mergeIsProcessing, mergedPdfUrl, renderedItems, thumbnails,
    mergeTask, nextId, mergeLast>>

watermarkVars ==
  <<watermarkFile, settings, watermarkIsProcessing, watermarkResultUrl,
    watermarkTask>>

appVars == <<currentView, recentTools, localStorage>>

vars == <<splitVars, applyTask, compressorVars, mergeVars, watermarkVars,
          appVars>>

\* A file is identified by the number of pages of its document.
NoFile == 0

Files == 1..MaxPages

\* pdf.numPages / srcDoc's page count.
NumPages(f) == f

Timestamps == 1..MaxTime

NoLoad == [active |-> FALSE, file |-> NoFile, i |-> 0, newPages |-> <<>>]

NoProc == [active |-> FALSE]

\* last after a handler whose locals no property reads.
NoLast == [op |-> "none"]

\* No applyRange call is in progress.
NoApply == [active |-> FALSE]

\* null, for the compressor's progress, result and estimatedSize.
NoProgress == [current |-> -1, total |-> -1]

NoResult == [of |-> NoFile, pages |-> <<>>]

NoEstimate == NoFile

NoTimer == [armed |-> FALSE]

NoCompress == [active |-> FALSE]

\* useState(0.6) and useState(1.5) (lines 26-27), in tenths.
DefaultQuality == 6

DefaultScale == 15

PDFCompressorToolInit ==
  /\ compressorFile = NoFile
  /\ processing = FALSE
  /\ progress = NoProgress
  /\ result = NoResult
  /\ quality = DefaultQuality
  /\ scale = DefaultScale
  /\ estimatedSize = NoEstimate
  /\ isEstimating = FALSE
  /\ timer = NoTimer
  /\ estimations = <<>>
  /\ compressTask = NoCompress
  /\ compressorLast = NoLast

\* null, for mergedPdfUrl and the watermark tool's resultUrl.
NoUrl == [made |-> FALSE]

NoMerge == [active |-> FALSE]

PDFMergeToolInit ==
  /\ items = <<>>
  /\ mergeIsProcessing = FALSE
  /\ mergedPdfUrl = NoUrl
  /\ renderedItems = <<>>
  /\ thumbnails = {}
  /\ mergeTask = NoMerge
  /\ nextId = 0
  /\ mergeLast = NoLast

\* The watermark settings (useState, lines 23-39).
SettingNames ==
  {"type", "text", "textSize", "textColor", "isBold", "isItalic",
   "watermarkImage", "imageScale", "position", "opacity", "rotation"}

\* Every setting at its initial value, written 0; 1 is another value.
DefaultSettings == [name \in SettingNames |-> 0]

NoWatermark == [active |-> FALSE]

PDFWatermarkToolInit ==
  /\ watermarkFile = NoFile
  /\ settings = DefaultSettings
  /\ watermarkIsProcessing = FALSE
  /\ watermarkResultUrl = NoUrl
  /\ watermarkTask = NoWatermark

\* .slice(0, 5) of navigateTo (line 499)
HistoryLength == 5

\* localStorage.getItem gives null: no text is stored.
NoItem == <<>>

AppInit ==
  /\ currentView = "DASHBOARD"
  /\ recentTools = <<>>
  /\ localStorage = NoItem

OtherToolsInitExceptMerge ==
  /\ applyTask = NoApply
  /\ PDFCompressorToolInit
  /\ PDFWatermarkToolInit
  /\ AppInit

\* The state of everything but the split tool at construction.
OtherToolsInit ==
  /\ OtherToolsInitExceptMerge
  /\ PDFMergeToolInit

PDFSplitToolInit ==
  /\ file = NoFile
  /\ pages = <<>>
  /\ mode = "custom"
  /\ outputMode = "single"
  /\ fixedRange = 1
  /\ isLoading = FALSE
  /\ isProcessing = FALSE
  /\ rangeInput = <<>>
  /\ loadingProgress = 0
  /\ resultUrl = NoBlob
  /\ resultFilename = ""
  /\ loadTask = NoLoad
  /\ procTask = NoProc
  /\ last = NoLast
  /\ mounted = TRUE
  /\ revoked = {}
  /\ lost = 0

Init ==
  /\ OtherToolsInit
  /\ PDFSplitToolInit

\* The editor interface is rendered (line 278); the upload area is rendered
\* when neither a file nor a load is present (line 243). Neither is there
\* once the component is unmounted.
EditorShown == mounted /\ file # NoFile /\ ~isLoading

UploadShown == mounted /\ file = NoFile /\ ~isLoading

\* useEffect(() => setResultUrl(null), [mode, outputMode, fixedRange, pages]):
\* the result after a handler, given whether a dependency changed identity.
ResetResult(changed) == IF changed THEN NoBlob ELSE resultUrl

(***************************************************************************)
(* Object URLs. A URL is named by what it was created for: the thumbnail   *)
(* of a page of the current page list, or the current result. The handlers *)
(* that map the page list copy each entry ({...p}), so the new list holds  *)
(* the URLs of the old one.                                                *)
(***************************************************************************)
PageUrl(index) == <<"page", index>>

CurrentResult == <<"result", 0>>

\* The URLs the cleanup of lines 43-47 revokes, for the pages and resultUrl
\* of the render that registered it.
CleanupUrls(ps, url) ==
  { PageUrl(ps[j].index) : j \in 1..Len(ps) }
    \cup (IF url # NoBlob THEN {CurrentResult} ELSE {})

\* The URLs revoked by the effects that follow a state update leaving page
\* list ps1 and result r1. The cleanup of lines 43-47 runs with the previous
\* render's pages and resultUrl when either changed identity; the effect of
\* lines 51-53 then sets resultUrl to null when one of its dependencies
\* changed, and if that changes resultUrl the cleanup runs again, with ps1
\* and r1.
EffectRevokes(ps1, r1, pagesChanged, resultChanged, configChanged) ==
  (IF pagesChanged \/ resultChanged
   THEN CleanupUrls(pages, resultUrl) ELSE {})
    \cup (IF (pagesChanged \/ configChanged) /\ r1 # NoBlob
          THEN CleanupUrls(ps1, r1) ELSE {})

\* revoked after such an update: the revoked URLs the new state still holds.
\* A result set by the update is a new URL, and the update leaves no result
\* when the effect of lines 51-53 resets it.
RevokedAfter(ps1, r1, pagesChanged, resultChanged, configChanged) ==
  LET all == revoked \cup EffectRevokes(ps1, r1, pagesChanged, resultChanged,
                                        configChanged)
      kept == r1 # NoBlob /\ ~resultChanged /\ ~pagesChanged
                /\ ~configChanged
  IN { u \in all : u \in CleanupUrls(ps1, NoBlob) }
       \cup (IF kept /\ CurrentResult \in all THEN {CurrentResult} ELSE {})

\* lost after n more URLs are dropped without a revoke.
Lose(n) == IF lost + n > MaxLost THEN MaxLost ELSE lost + n

(***************************************************************************)
(* loadPDF (lines 55-100), started by handleFileChange (lines 102-106).    *)
(***************************************************************************)
HandleFileChange(f) ==
  /\ UploadShown
  /\ isLoading' = TRUE
  /\ pages' = <<>>
  /\ file' = f
  /\ resultUrl' = NoBlob
  /\ rangeInput' = <<>>
  /\ loadingProgress' = 0
  /\ loadTask' = [active |-> TRUE, file |-> f, i |-> 1, newPages |-> <<>>]
  /\ last' = NoLast
  /\ revoked' = RevokedAfter(<<>>, NoBlob, TRUE, resultUrl # NoBlob, FALSE)
  /\ UNCHANGED <<mode, outputMode, fixedRange, isProcessing, resultFilename,
                 procTask, mounted, lost>>
  /\ UNCHANGED <<applyTask, compressorVars, mergeVars, watermarkVars, appVars>>

\* One iteration of the page loop (lines 70-92). rendered: getContext('2d')
\* gave a context and toBlob gave a blob; otherwise the page is left out.
LoadPage(rendered) ==
  /\ loadTask.active
  /\ loadTask.i <= NumPages(loadTask.file)
  /\ loadTask' = [loadTask EXCEPT
       !.i = @ + 1,
       !.newPages = IF rendered
                    THEN Append(@, [index |-> loadTask.i - 1, selected |-> FALSE])
                    ELSE @]
  /\ loadingProgress' = IF mounted
                         THEN RoundPercent(loadTask.i, NumPages(loadTask.file))
                         ELSE loadingProgress
  /\ last' = NoLast
  /\ UNCHANGED <<file, pages, mode, outputMode, fixedRange, isLoading,
                 isProcessing, rangeInput, resultUrl, resultFilename, procTask,
                 mounted, revoked, lost>>
  /\ UNCHANGED <<applyTask, compressorVars, mergeVars, watermarkVars, appVars>>

\* setPages(newPages) after the loop, then finally (lines 93, 98). The
\* state updates of a call that outlives the component do nothing, and the
\* thumbnails it made are dropped.
LoadDone ==
  /\ loadTask.active
  /\ loadTask.i > NumPages(loadTask.file)
  /\ IF mounted
     THEN /\ pages' = loadTask.newPages
          /\ resultUrl' = ResetResult(TRUE)
          /\ isLoading' = FALSE
          /\ revoked' = RevokedAfter(loadTask.newPages, resultUrl, TRUE, FALSE,
                                     FALSE)
          /\ UNCHANGED lost
     ELSE /\ lost' = Lose(Len(loadTask.newPages))
          /\ UNCHANGED <<pages, resultUrl, isLoading, revoked>>
  /\ loadTask' = NoLoad
  /\ last' = [op |-> "loadPDF", alert |-> ""]
  /\ UNCHANGED <<file, mode, outputMode, fixedRange, isProcessing, rangeInput,
                 loadingProgress, resultFilename, procTask, mounted>>
  /\ UNCHANGED <<applyTask, compressorVars, mergeVars, watermarkVars, appVars>>

\* An awaited call of loadPDF rejects: catch, alert, finally (lines 94-99).
\* Only the calls up to the render of the last page can reject. newPages
\* goes out of scope with the thumbnails made so far.
LoadFail ==
  /\ loadTask.active
  /\ loadTask.i <= NumPages(loadTask.file)
  /\ isLoading' = IF mounted THEN FALSE ELSE isLoading
  /\ loadTask' = NoLoad
  /\ last' = [op |-> "loadPDF", alert |-> "Failed to load PDF pages."]
  /\ lost' = Lose(Len(loadTask.newPages))
  /\ UNCHANGED <<file, pages, mode, outputMode, fixedRange, isProcessing,
                 rangeInput, loadingProgress, resultUrl, resultFilename,
                 procTask, mounted, revoked>>
  /\ UNCHANGED <<applyTask, compressorVars, mergeVars, watermarkVars, appVars>>

(***************************************************************************)
(* The editor's handlers.                                                  *)
(***************************************************************************)
\* onClick={() => setMode(m)} (lines 287, 298)
SetMode(m) ==
  /\ EditorShown
  /\ mode' = m
  /\ resultUrl' = ResetResult(m # mode)
  /\ revoked' = RevokedAfter(pages, resultUrl, FALSE, FALSE, m # mode)
  /\ last' = NoLast
  /\ UNCHANGED <<file, pages, outputMode, fixedRange, isLoading, isProcessing,
                 rangeInput, loadingProgress, resultFilename, loadTask,
                 procTask, mounted, lost>>
  /\ UNCHANGED <<applyTask, compressorVars, mergeVars, watermarkVars, appVars>>

\* onClick={() => setFile(null)} (line 309)
RemoveFile ==
  /\ EditorShown
  /\ file' = NoFile
  /\ last' = NoLast
  /\ UNCHANGED <<pages, mode, outputMode, fixedRange, isLoading, isProcessing,
                 rangeInput, loadingProgress, resultUrl, resultFilename,
                 loadTask, procTask, mounted, revoked, lost>>
  /\ UNCHANGED <<applyTask, compressorVars, mergeVars, watermarkVars, appVars>>

\* onChange={(e) => setRangeInput(e.target.value)} (line 328)
SetRangeInput(text) ==
  /\ EditorShown
  /\ mode = "custom"
  /\ rangeInput' = text
  /\ last' = NoLast
  /\ UNCHANGED <<file, pages, mode, outputMode, fixedRange, isLoading,
                 isProcessing, loadingProgress, resultUrl, resultFilename,
                 loadTask, procTask, mounted, revoked, lost>>
  /\ UNCHANGED <<applyTask, compressorVars, mergeVars, watermarkVars, appVars>>

\* onClick={() => setOutputMode(o)} (lines 345, 351)
SetOutputMode(o) ==
  /\ EditorShown
  /\ mode = "custom"
  /\ outputMode' = o
  /\ resultUrl' = ResetResult(o # outputMode)
  /\ revoked' = RevokedAfter(pages, resultUrl, FALSE, FALSE, o # outputMode)
  /\ last' = NoLast
  /\ UNCHANGED <<file, pages, mode, fixedRange, isLoading, isProcessing,
                 rangeInput, loadingProgress, resultFilename, loadTask,
                 procTask, mounted, lost>>
  /\ UNCHANGED <<applyTask, compressorVars, mergeVars, watermarkVars, appVars>>

\* onChange of the chunk-size input (line 380); k is
\* Math.max(1, parseInt(e.target.value) || 1).
SetFixedRange(k) ==
  /\ EditorShown
  /\ mode = "fixed"
  /\ fixedRange' = k
  /\ resultUrl' = ResetResult(k # fixedRange)
  /\ revoked' = RevokedAfter(pages, resultUrl, FALSE, FALSE, k # fixedRange)
  /\ last' = NoLast
  /\ UNCHANGED <<file, pages, mode, outputMode, isLoading, isProcessing,
                 rangeInput, loadingProgress, resultFilename, loadTask,
                 procTask, mounted, lost>>
  /\ UNCHANGED <<applyTask, compressorVars, mergeVars, watermarkVars, appVars>>

\* ToggledPages moving the toggled page to the end of the list.
ToggledPagesMoved(prev, index) ==
  SelectSeq(prev, LAMBDA p : p.index # index)
    \o [j \in 1..1 |->
          LET p == CHOOSE q \in {prev[h] : h \in 1..Len(prev)} : q.index = index
          IN [p EXCEPT !.selected = ~p.selected]]

\* prev.map(p => p.index === index ? {...p, selected: !p.selected} : p)
ToggledPages(prev, index) ==
  [j \in 1..Len(prev) |->
     IF prev[j].index = index
     THEN [prev[j] EXCEPT !.selected = ~prev[j].selected]
     ELSE prev[j]]

\* ToggleReturnsEarly never returning: the selection is open in fixed mode.
ToggleReturnsNever(m) == FALSE

\* if (mode === 'fixed') return (line 109)
ToggleReturnsEarly(m) == m = "fixed"

\* togglePageSelection (lines 108-113), the onClick of a page of the grid.
TogglePageSelection(index) ==
  /\ EditorShown
  /\ \E j \in 1..Len(pages) : pages[j].index = index
  /\ IF ToggleReturnsEarly(mode)
     THEN /\ UNCHANGED <<pages, resultUrl, revoked>>
          /\ last' = [op |-> "togglePageSelection", returned |-> TRUE]
     ELSE /\ pages' = ToggledPages(pages, index)
          /\ resultUrl' = ResetResult(TRUE)
          /\ revoked' = RevokedAfter(ToggledPages(pages, index), resultUrl,
                                     TRUE, FALSE, FALSE)
          /\ last' = NoLast
  /\ UNCHANGED <<file, mode, outputMode, fixedRange, isLoading, isProcessing,
                 rangeInput, loadingProgress, resultFilename, loadTask,
                 procTask, mounted, lost>>
  /\ UNCHANGED <<applyTask, compressorVars, mergeVars, watermarkVars, appVars>>

\* selectAll (lines 115-117)
SelectAll(select) ==
  /\ EditorShown
  /\ mode = "custom"
  /\ pages' = [j \in 1..Len(pages) |-> [pages[j] EXCEPT !.selected = select]]
  /\ resultUrl' = ResetResult(TRUE)
  /\ revoked' = RevokedAfter(pages, resultUrl, TRUE, FALSE, FALSE)
  /\ last' = NoLast
  /\ UNCHANGED <<file, mode, outputMode, fixedRange, isLoading, isProcessing,
                 rangeInput, loadingProgress, resultFilename, loadTask,
                 procTask, mounted, lost>>
  /\ UNCHANGED <<applyTask, compressorVars, mergeVars, watermarkVars, appVars>>

\* RangedPages keeping the pages that were selected before.
RangedPagesMerged(prev, selectedIndices) ==
  [j \in 1..Len(prev) |->
     [prev[j] EXCEPT !.selected = @ \/ prev[j].index \in selectedIndices]]

\* prev.map(p => ({...p, selected: selectedIndices.has(p.index)}))
RangedPages(prev, selectedIndices) ==
  [j \in 1..Len(prev) |->
     [prev[j] EXCEPT !.selected = prev[j].index \in selectedIndices]]

\* ReturnsEarly for the fixed mode only: an empty input is parsed.
ReturnsEarlyFixedOnly(input, m) == m = "fixed"

\* if (!rangeInput || mode === 'fixed') return (line 120)
ReturnsEarly(input, m) == input = <<>> \/ m = "fixed"

\* applyRange (lines 119-146), the Apply button and the Enter key of the
\* range text box.
ApplyRange ==
  /\ EditorShown
  /\ mode = "custom"
  /\ IF ReturnsEarly(rangeInput, mode)
     THEN /\ UNCHANGED <<pages, resultUrl, revoked>>
          /\ last' = [op |-> "applyRange", returned |-> TRUE]
     ELSE LET selectedIndices == SelectedIndices(rangeInput, Len(pages))
          IN /\ pages' = RangedPages(pages, selectedIndices)
             /\ resultUrl' = ResetResult(TRUE)
             /\ revoked' = RevokedAfter(pages, resultUrl, TRUE, FALSE, FALSE)
             /\ last' = [op |-> "applyRange", returned |-> FALSE,
                         selectedIndices |-> selectedIndices, prev |-> pages]
  /\ UNCHANGED <<file, mode, outputMode, fixedRange, isLoading, isProcessing,
                 rangeInput, loadingProgress, resultFilename, loadTask,
                 procTask, mounted, lost>>
  /\ UNCHANGED <<applyTask, compressorVars, mergeVars, watermarkVars, appVars>>

(***************************************************************************)
(* applyRange (lines 119-146) statement by statement: the call, one step   *)
(* per part of the forEach (lines 125-141), one per test of the for loop   *)
(* (lines 134-138), and the setPages that ends it (lines 142-145). The     *)
(* handler runs without yielding, so no other handler runs in between.     *)
(***************************************************************************)
\* The loop variable i over a page list of length n. Every value beyond n
\* fails the test of line 135 alike and is kept as n + 1.
LoopIndex(i, n) == Min(i, n + 1)

\* The call, up to the forEach. ranges holds, for the parts not yet visited,
\* the range line 126 computes from each: it depends on the part only.
ApplyRangeCall ==
  /\ EditorShown
  /\ mode = "custom"
  /\ ~applyTask.active
  /\ ~ReturnsEarly(rangeInput, mode)
  /\ LET parts == Split(rangeInput, ",")
     IN applyTask' = [active |-> TRUE,
                      ranges |-> [k \in 1..Len(parts) |-> RangeOf(parts[k])],
                      inLoop |-> FALSE, i |-> 0, end |-> 0,
                      selectedIndices |-> {}]
  /\ UNCHANGED <<splitVars, compressorVars, mergeVars, watermarkVars, appVars>>

\* The forEach callback for the next part, up to the start of its for loop.
ForEachPart ==
  /\ applyTask.active
  /\ ~applyTask.inLoop
  /\ applyTask.ranges # <<>>
  /\ LET range == Head(applyTask.ranges)
         n == Len(pages)
     IN applyTask' =
          IF Len(range) = 1 /\ ~isNaN(range[1])
          THEN [applyTask EXCEPT
                  !.ranges = Tail(@),
                  !.selectedIndices =
                     @ \cup (IF range[1] > 0 /\ range[1] <= n
                             THEN {range[1] - 1} ELSE {})]
          ELSE IF Len(range) = 2 /\ ~isNaN(range[1]) /\ ~isNaN(range[2])
          THEN [applyTask EXCEPT
                  !.ranges = Tail(@),
                  !.inLoop = TRUE,
                  !.i = LoopIndex(Min(range[1], range[2]), n),
                  !.end = Max(range[1], range[2])]
          ELSE [applyTask EXCEPT !.ranges = Tail(@)]
  /\ UNCHANGED <<splitVars, compressorVars, mergeVars, watermarkVars, appVars>>

\* One test of i <= end with the iteration it admits (lines 134-138). Once
\* i is beyond pages.length an iteration adds nothing: a finite end is
\* reached after end - i more of them, which are taken in this one step; an
\* infinite end is never reached, the test holds again with i one greater
\* (and from 2^53 on with i unchanged), and the call is where it was.
ForLoop ==
  /\ applyTask.active
  /\ applyTask.inLoop
  /\ LET i == applyTask.i
         end == applyTask.end
         n == Len(pages)
     IN applyTask' =
          IF i <= n
          THEN IF i <= end
               THEN [applyTask EXCEPT
                       !.selectedIndices =
                          @ \cup (IF i > 0 THEN {i - 1} ELSE {}),
                       !.i = LoopIndex(i + 1, n)]
               ELSE [applyTask EXCEPT !.inLoop = FALSE]
          ELSE IF end = Infinity
               THEN applyTask
               ELSE [applyTask EXCEPT !.inLoop = FALSE]
  /\ UNCHANGED <<splitVars, compressorVars, mergeVars, watermarkVars, appVars>>

\* setPages(prev => ...) after the forEach (lines 142-145), and the return.
ApplyRangeReturn ==
  /\ applyTask.active
  /\ ~applyTask.inLoop
  /\ applyTask.ranges = <<>>
  /\ pages' = RangedPages(pages, applyTask.selectedIndices)
  /\ resultUrl' = ResetResult(TRUE)
  /\ revoked' = RevokedAfter(pages, resultUrl, TRUE, FALSE, FALSE)
  /\ last' = [op |-> "applyRange", returned |-> FALSE,
              selectedIndices |-> applyTask.selectedIndices, prev |-> pages]
  /\ applyTask' = NoApply
  /\ UNCHANGED <<file, mode, outputMode, fixedRange, isLoading, isProcessing,
                 rangeInput, loadingProgress, resultFilename, loadTask,
                 procTask, mounted, lost>>
  /\ UNCHANGED <<compressorVars, mergeVars, watermarkVars, appVars>>

(***************************************************************************)
(* processPDF (lines 148-223), the onClick of the action button.           *)
(***************************************************************************)
\* disabled={isProcessing || (mode === 'custom' && no page selected)}
ProcessDisabled ==
  isProcessing \/ (mode = "custom" /\ Len(SelectedPages(pages)) = 0)

\* The call up to its first await: setIsProcessing(true); the rest of the
\* call reads the state of the render the click happened in. The button is
\* rendered only with a file, so the early return of line 149 is not taken.
ProcessPDF ==
  /\ EditorShown
  /\ ~ProcessDisabled
  /\ isProcessing' = TRUE
  /\ procTask' = [active |-> TRUE, file |-> file, pages |-> pages,
                  mode |-> mode, outputMode |-> outputMode,
                  fixedRange |-> fixedRange]
  /\ last' = NoLast
  /\ UNCHANGED <<file, pages, mode, outputMode, fixedRange, isLoading,
                 rangeInput, loadingProgress, resultUrl, resultFilename,
                 loadTask, mounted, revoked, lost>>
  /\ UNCHANGED <<applyTask, compressorVars, mergeVars, watermarkVars, appVars>>

\* A click on the action button while it is disabled (line 444): the browser
\* does not call processPDF, and nothing is shown to the user.
ProcessClickDisabled ==
  /\ EditorShown
  /\ ProcessDisabled
  /\ last' = [op |-> "processClick", alert |-> ""]
  /\ UNCHANGED <<file, pages, mode, outputMode, fixedRange, isLoading,
                 isProcessing, rangeInput, loadingProgress, resultUrl,
                 resultFilename, loadTask, procTask, mounted, revoked, lost>>
  /\ UNCHANGED <<applyTask, compressorVars, mergeVars, watermarkVars, appVars>>

\* Every awaited call resolves; timestamp is Date.now() (line 155).
ProcessSucceed(timestamp) ==
  /\ procTask.active
  /\ \A idx \in CopiedIndexes(procTask) :
       idx >= 0 /\ idx < NumPages(procTask.file)
  /\ LET out == ProcessOutcome(procTask, timestamp)
     IN IF mounted
        THEN /\ IF out.returned
                THEN UNCHANGED <<resultUrl, resultFilename, revoked>>
                ELSE /\ resultUrl' = out.url
                     /\ resultFilename' = out.filename
                     /\ revoked' = RevokedAfter(pages, out.url, FALSE, TRUE,
                                                FALSE)
             /\ isProcessing' = FALSE
             /\ last' = [op |-> "processPDF", settled |-> TRUE,
                         ok |-> ~out.returned, alert |-> "",
                         closure |-> procTask, timestamp |-> timestamp,
                         before |-> [url |-> resultUrl,
                                     filename |-> resultFilename]]
             /\ UNCHANGED lost
        ELSE /\ lost' = Lose(IF out.returned THEN 0 ELSE 1)
             /\ last' = [op |-> "processPDF", settled |-> TRUE, ok |-> FALSE,
                         alert |-> ""]
             /\ UNCHANGED <<resultUrl, resultFilename, revoked, isProcessing>>
  /\ procTask' = NoProc
  /\ UNCHANGED <<file, pages, mode, outputMode, fixedRange, isLoading,
                 rangeInput, loadingProgress, loadTask, mounted>>
  /\ UNCHANGED <<applyTask, compressorVars, mergeVars, watermarkVars, appVars>>

\* ProcessFail dropping the result of an earlier run.
ProcessFailClearing ==
  /\ procTask.active
  /\ isProcessing' = IF mounted THEN FALSE ELSE isProcessing
  /\ procTask' = NoProc
  /\ last' = [op |-> "processPDF", settled |-> TRUE, ok |-> FALSE,
              alert |-> "Failed to process pages."]
  /\ resultUrl' = NoBlob
  /\ resultFilename' = ""
  /\ UNCHANGED <<file, pages, mode, outputMode, fixedRange, isLoading,
                 rangeInput, loadingProgress, loadTask, mounted, revoked, lost>>
  /\ UNCHANGED <<applyTask, compressorVars, mergeVars, watermarkVars, appVars>>

\* An awaited call of processPDF rejects: catch, alert, finally.
ProcessFail ==
  /\ procTask.active
  /\ isProcessing' = IF mounted THEN FALSE ELSE isProcessing
  /\ procTask' = NoProc
  /\ last' = [op |-> "processPDF", settled |-> TRUE, ok |-> FALSE,
              alert |-> "Failed to process pages."]
  /\ UNCHANGED <<file, pages, mode, outputMode, fixedRange, isLoading,
                 rangeInput, loadingProgress, resultUrl, resultFilename,
                 loadTask, mounted, revoked, lost>>
  /\ UNCHANGED <<applyTask, compressorVars, mergeVars, watermarkVars, appVars>>

\* App renders another view (lines 510-517): the component is unmounted and
\* the cleanup of lines 43-47 runs with the last render's pages and resultUrl.
\* Calls in flight go on.
Unmount ==
  /\ mounted
  /\ mounted' = FALSE
  /\ revoked' = revoked \cup CleanupUrls(pages, resultUrl)
  /\ last' = NoLast
  /\ UNCHANGED <<file, pages, mode, outputMode, fixedRange, isLoading,
                 isProcessing, rangeInput, loadingProgress, resultUrl,
                 resultFilename, loadTask, procTask, lost>>
  /\ UNCHANGED <<applyTask, compressorVars, mergeVars, watermarkVars, appVars>>

(***************************************************************************)
(* The specification of the tool.                                          *)
(***************************************************************************)
\* Range strings the user types in Spec.
TypedInputs == { <<>>, <<"2", "-", "1">> }

(***************************************************************************)
(* PDFCompressorTool (src/components/PDFCompressorTool.tsx). A file is     *)
(* identified by the number of pages of its document, as in the split      *)
(* tool.                                                                   *)
(***************************************************************************)
CompressorFiles == 1..MaxCompressPages

\* JPEG quality and resolution scale, in tenths: the initial value and one
\* other value of each control (lines 230-236, 248-254).
Qualities == {3, DefaultQuality}

Scales == {10, DefaultScale}

\* The estimation effect (lines 42-84) after a render: when one of its
\* dependencies [file, quality, scale, result] changed, the cleanup of the
\* previous run clears its timer (line 83) and the effect arms a new one
\* unless there is no file or there is a result (line 43); otherwise the
\* timer is as it was. setResult(null) over null is no change.
EstimationTimer(changed, f, q, s, res) ==
  IF ~changed THEN timer
  ELSE IF f = NoFile \/ res # NoResult THEN NoTimer
  ELSE [armed |-> TRUE, file |-> f, quality |-> q, scale |-> s]

\* onChange of the file input (lines 185-192); its label is rendered while
\* there is no file (line 195).
ChooseFile(f) ==
  /\ compressorFile = NoFile
  /\ compressorFile' = f
  /\ result' = NoResult
  /\ progress' = NoProgress
  /\ estimatedSize' = NoEstimate
  /\ timer' = EstimationTimer(TRUE, f, quality, scale, NoResult)
  /\ compressorLast' = [op |-> "chooseFile"]
  /\ UNCHANGED <<processing, quality, scale, isEstimating, estimations,
                 compressTask>>
  /\ UNCHANGED <<splitVars, applyTask, mergeVars, watermarkVars, appVars>>

\* onClick of Remove (line 215), rendered whenever there is a file.
RemoveCompressorFile ==
  /\ compressorFile # NoFile
  /\ compressorFile' = NoFile
  /\ timer' = EstimationTimer(TRUE, NoFile, quality, scale, result)
  /\ compressorLast' = [op |-> "remove"]
  /\ UNCHANGED <<processing, progress, result, quality, scale, estimatedSize,
                 isEstimating, estimations, compressTask>>
  /\ UNCHANGED <<splitVars, applyTask, mergeVars, watermarkVars, appVars>>

\* The settings controls are rendered when !result && !processing (line 221).
SettingsShown ==
  compressorFile # NoFile /\ result = NoResult /\ ~processing

\* onChange of the quality slider (line 251)
SetQuality(q) ==
  /\ SettingsShown
  /\ quality' = q
  /\ timer' = EstimationTimer(q # quality, compressorFile, q, scale, result)
  /\ compressorLast' = [op |-> "setQuality"]
  /\ UNCHANGED <<compressorFile, processing, progress, result, scale,
                 estimatedSize, isEstimating, estimations, compressTask>>
  /\ UNCHANGED <<splitVars, applyTask, mergeVars, watermarkVars, appVars>>

\* onChange of the resolution select (line 230)
SetScale(s) ==
  /\ SettingsShown
  /\ scale' = s
  /\ timer' = EstimationTimer(s # scale, compressorFile, quality, s, result)
  /\ compressorLast' = [op |-> "setScale"]
  /\ UNCHANGED <<compressorFile, processing, progress, result, quality,
                 estimatedSize, isEstimating, estimations, compressTask>>
  /\ UNCHANGED <<splitVars, applyTask, mergeVars, watermarkVars, appVars>>

\* The debounce timer fires (lines 46-47): the estimation starts with the
\* file, quality and scale of the render that armed it.
TimerFires ==
  /\ timer.armed
  /\ Len(estimations) < MaxEstimations
  /\ timer' = NoTimer
  /\ isEstimating' = TRUE
  /\ estimations' =
       Append(estimations, [file |-> timer.file, quality |-> timer.quality,
                            scale |-> timer.scale])
  /\ compressorLast' = [op |-> "estimate", processing |-> processing]
  /\ UNCHANGED <<compressorFile, processing, progress, result, quality, scale,
                 estimatedSize, compressTask>>
  /\ UNCHANGED <<splitVars, applyTask, mergeVars, watermarkVars, appVars>>

\* An estimation run ends (lines 48-81): with a canvas context and no
\* rejection it sets estimatedSize, and in every case finally clears
\* isEstimating.
EstimateSettles(k, ok) ==
  /\ k \in 1..Len(estimations)
  /\ estimatedSize' = IF ok THEN estimations[k].file ELSE estimatedSize
  /\ isEstimating' = FALSE
  /\ estimations' = [j \in 1..(Len(estimations) - 1) |->
                       IF j < k THEN estimations[j] ELSE estimations[j + 1]]
  /\ compressorLast' = [op |-> "estimated"]
  /\ UNCHANGED <<compressorFile, processing, progress, result, quality, scale,
                 timer, compressTask>>
  /\ UNCHANGED <<splitVars, applyTask, mergeVars, watermarkVars, appVars>>

\* The action button is rendered when !processing && !result (line 296) and
\* disabled while isEstimating (line 299).
CompressShown ==
  compressorFile # NoFile /\ ~processing /\ result = NoResult

\* compressPDF (lines 87-166) up to its first await.
CompressPDF ==
  /\ CompressShown
  /\ ~isEstimating
  /\ processing' = TRUE
  /\ result' = NoResult
  /\ progress' = [current |-> 0, total |-> 100]
  /\ compressTask' = [active |-> TRUE, file |-> compressorFile,
                      loaded |-> FALSE, i |-> 1, totalPages |-> 0,
                      newPdfDoc |-> <<>>]
  /\ compressorLast' = [op |-> "compressPDF", estimating |-> estimations # <<>>]
  /\ UNCHANGED <<compressorFile, quality, scale, estimatedSize, isEstimating,
                 timer, estimations>>
  /\ UNCHANGED <<splitVars, applyTask, mergeVars, watermarkVars, appVars>>

\* The document is loaded (lines 93-102).
CompressLoaded ==
  /\ compressTask.active
  /\ ~compressTask.loaded
  /\ compressTask' = [compressTask EXCEPT
                        !.loaded = TRUE,
                        !.totalPages = NumPages(compressTask.file)]
  /\ progress' = [current |-> 0, total |-> NumPages(compressTask.file)]
  /\ compressorLast' = [op |-> "loaded"]
  /\ UNCHANGED <<compressorFile, processing, result, quality, scale,
                 estimatedSize, isEstimating, timer, estimations>>
  /\ UNCHANGED <<splitVars, applyTask, mergeVars, watermarkVars, appVars>>

\* AddedPage putting the new page first.
AddedPageFirst(doc, i) == <<i>> \o doc

\* newPdfDoc.addPage and drawImage of source page i (lines 135-141)
AddedPage(doc, i) == Append(doc, i)

\* One iteration of the page loop (lines 107-146): page i is fetched,
\* rendered, embedded and added, the progress is reported, and the loop
\* yields.
CompressPage ==
  /\ compressTask.active
  /\ compressTask.loaded
  /\ compressTask.i <= compressTask.totalPages
  /\ compressTask' = [compressTask EXCEPT
                        !.newPdfDoc = AddedPage(@, compressTask.i),
                        !.i = @ + 1]
  /\ progress' = [current |-> compressTask.i,
                  total |-> compressTask.totalPages]
  /\ compressorLast' = [op |-> "page", i |-> compressTask.i,
                        before |-> compressTask.newPdfDoc]
  /\ UNCHANGED <<compressorFile, processing, result, quality, scale,
                 estimatedSize, isEstimating, timer, estimations>>
  /\ UNCHANGED <<splitVars, applyTask, mergeVars, watermarkVars, appVars>>

\* The document is saved and the result set (lines 148-157), then finally
\* (lines 162-165).
CompressSucceeds ==
  /\ compressTask.active
  /\ compressTask.loaded
  /\ compressTask.i > compressTask.totalPages
  /\ result' = [of |-> compressTask.file, pages |-> compressTask.newPdfDoc]
  /\ processing' = FALSE
  /\ progress' = NoProgress
  /\ timer' = EstimationTimer(TRUE, compressorFile, quality, scale,
                              [of |-> compressTask.file,
                               pages |-> compressTask.newPdfDoc])
  /\ compressTask' = NoCompress
  /\ compressorLast' = [op |-> "compressed", alert |-> ""]
  /\ UNCHANGED <<compressorFile, quality, scale, estimatedSize, isEstimating,
                 estimations>>
  /\ UNCHANGED <<splitVars, applyTask, mergeVars, watermarkVars, appVars>>

\* CompressFails leaving the busy flag set.
CompressFailsBusy ==
  /\ compressTask.active
  /\ ~compressTask.loaded \/ compressTask.i <= compressTask.totalPages + 1
  /\ progress' = NoProgress
  /\ compressTask' = NoCompress
  /\ compressorLast' = [op |-> "compressed",
                        alert |-> "Error compressing PDF"]
  /\ UNCHANGED <<compressorFile, processing, result, quality, scale,
                 estimatedSize, isEstimating, timer, estimations>>
  /\ UNCHANGED <<splitVars, applyTask, mergeVars, watermarkVars, appVars>>

\* An awaited call rejects or the canvas context is missing (line 116):
\* catch (lines 159-161), then finally.
CompressFails ==
  /\ compressTask.active
  /\ ~compressTask.loaded \/ compressTask.i <= compressTask.totalPages + 1
  /\ processing' = FALSE
  /\ progress' = NoProgress
  /\ compressTask' = NoCompress
  /\ compressorLast' = [op |-> "compressed",
                        alert |-> "Error compressing PDF"]
  /\ UNCHANGED <<compressorFile, result, quality, scale, estimatedSize,
                 isEstimating, timer, estimations>>
  /\ UNCHANGED <<splitVars, applyTask, mergeVars, watermarkVars, appVars>>

\* onClick of the reset button of the result panel (line 323)
ResetCompressor ==
  /\ compressorFile # NoFile
  /\ result # NoResult
  /\ result' = NoResult
  /\ timer' = EstimationTimer(TRUE, compressorFile, quality, scale, NoResult)
  /\ compressorLast' = [op |-> "reset"]
  /\ UNCHANGED <<compressorFile, processing, progress, quality, scale,
                 estimatedSize, isEstimating, estimations, compressTask>>
  /\ UNCHANGED <<splitVars, applyTask, mergeVars, watermarkVars, appVars>>

CompressorNext ==
  \/ \E f \in CompressorFiles : ChooseFile(f)
  \/ RemoveCompressorFile
  \/ \E q \in Qualities : SetQuality(q)
  \/ \E s \in Scales : SetScale(s)
  \/ TimerFires
  \/ \E k \in 1..MaxEstimations, ok \in BOOLEAN : EstimateSettles(k, ok)
  \/ CompressPDF
  \/ CompressLoaded
  \/ CompressPage
  \/ CompressSucceeds
  \/ CompressFails
  \/ ResetCompressor

CompressorSpec == Init /\ [][CompressorNext]_vars

\* The two page loops: loadPDF of the split tool and compressPDF, with the
\* handlers that start them and those that can run meanwhile.
PagesNext ==
  \/ \E f \in Files : HandleFileChange(f)
  \/ \E rendered \in BOOLEAN : LoadPage(rendered)
  \/ LoadDone
  \/ LoadFail
  \/ RemoveFile
  \/ \E f \in CompressorFiles : ChooseFile(f)
  \/ RemoveCompressorFile
  \/ CompressPDF
  \/ CompressLoaded
  \/ CompressPage
  \/ CompressSucceeds
  \/ CompressFails
  \/ ResetCompressor

PagesSpec == Init /\ [][PagesNext]_vars

Next ==
  \/ \E f \in Files : HandleFileChange(f)
  \/ \E rendered \in BOOLEAN : LoadPage(rendered)
  \/ LoadDone
  \/ LoadFail
  \/ \E m \in {"custom", "fixed"} : SetMode(m)
  \/ RemoveFile
  \/ \E text \in TypedInputs : SetRangeInput(text)
  \/ \E o \in {"single", "separate"} : SetOutputMode(o)
  \/ \E k \in 1..MaxChunk : SetFixedRange(k)
  \/ \E index \in 0..(MaxPages - 1) : TogglePageSelection(index)
  \/ \E select \in BOOLEAN : SelectAll(select)
  \/ ApplyRange
  \/ ProcessPDF
  \/ ProcessClickDisabled
  \/ \E timestamp \in Timestamps : ProcessSucceed(timestamp)
  \/ ProcessFail
  \/ Unmount

Spec == Init /\ [][Next]_vars

(***************************************************************************)
(* Two restrictions of Spec, each to the handlers of one way through the   *)
(* tool: every behaviour of either is a behaviour of Spec.                 *)
(***************************************************************************)
\* Custom selection merged into one PDF: load, select, process.
CustomNext ==
  \/ \E f \in 1..MaxFlowPages : HandleFileChange(f)
  \/ \E rendered \in BOOLEAN : LoadPage(rendered)
  \/ LoadDone
  \/ RemoveFile
  \/ \E text \in TypedInputs : SetRangeInput(text)
  \/ \E index \in 0..(MaxFlowPages - 1) : TogglePageSelection(index)
  \/ \E select \in BOOLEAN : SelectAll(select)
  \/ ApplyRange
  \/ ProcessPDF
  \/ ProcessClickDisabled
  \/ \E timestamp \in Timestamps : ProcessSucceed(timestamp)
  \/ ProcessFail

CustomSpec == Init /\ [][CustomNext]_vars

\* Fixed-size split: load, switch mode, set the chunk size, process.
FixedNext ==
  \/ \E f \in 1..MaxFlowPages : HandleFileChange(f)
  \/ \E rendered \in BOOLEAN : LoadPage(rendered)
  \/ LoadDone
  \/ RemoveFile
  \/ \E m \in {"custom", "fixed"} : SetMode(m)
  \/ \E k \in 1..MaxFlowChunk : SetFixedRange(k)
  \/ ProcessPDF
  \/ \E timestamp \in Timestamps : ProcessSucceed(timestamp)
  \/ ProcessFail

FixedSpec == Init /\ [][FixedNext]_vars

\* The life of the object URLs: load, toggle, process, unmount.
UrlNext ==
  \/ \E f \in 1..MaxUrlPages : HandleFileChange(f)
  \/ \E rendered \in BOOLEAN : LoadPage(rendered)
  \/ LoadDone
  \/ LoadFail
  \/ RemoveFile
  \/ \E index \in 0..(MaxUrlPages - 1) : TogglePageSelection(index)
  \/ ProcessPDF
  \/ \E timestamp \in Timestamps : ProcessSucceed(timestamp)
  \/ ProcessFail
  \/ Unmount

UrlSpec == Init /\ [][UrlNext]_vars

(***************************************************************************)
(* Specifications of the two pure computations: the editor starts in a     *)
(* state the tool reaches after a load (a page list in ascending index     *)
(* order, possibly with pages left out by LoadPage, any selection, any     *)
(* configuration, any typed range) and the one handler runs.               *)
(***************************************************************************)
\* The page list holding the indices of rendered, those of selected flagged.
RECURSIVE PageList(_, _)
PageList(rendered, selected) ==
  IF rendered = {} THEN <<>>
  ELSE LET m == CHOOSE x \in rendered : \A y \in rendered : y <= x
       IN Append(PageList(rendered \ {m}, selected),
                 [index |-> m, selected |-> m \in selected])

\* Every page list loadPDF and the selection handlers can leave for a
\* document of n pages.
PageLists(n) ==
  { PageList(rendered, selected) :
      <<rendered, selected>> \in
        { rs \in (SUBSET (0..(n - 1))) \X (SUBSET (0..(n - 1))) :
            rs[2] \subseteq rs[1] } }

\* The page list of a document of n pages, all rendered.
FullList(n, selected) == PageList(0..(n - 1), selected)

Alphabet == {"1", "2", "-", ",", " ", "x"}

RangeStrings == UNION { [1..len -> Alphabet] : len \in 0..MaxLen }

\* Range strings longer than MaxLen, over documents of 5 and 10 pages.
ExampleInputs ==
  { <<"5", "-", "2">>,
    <<"1", "-", "3", ",", " ", "5", ",", " ", "8">>,
    <<"1", "-", "3", ",", " ", "2", ",", " ", "3", "-", "1">>,
    <<"8", ",", " ", "1", "-", "3">>,
    <<"5", "-">>,
    <<"-", "3">>,
    <<"-">>,
    <<"1", "-", "2", "-", "3">>,
    <<"a", "b", "c">>,
    <<"4", ",", "5", "-", ",", "x", ",", "1", "2">>,
    <<"0", ",", "1", "1", ",", "9", "-", "1", "2">> }

ExampleFiles == {5, 10}

EditorIdle ==
  /\ OtherToolsInit
  /\ isLoading = FALSE
  /\ isProcessing = FALSE
  /\ loadingProgress = 100
  /\ resultUrl = NoBlob
  /\ resultFilename = ""
  /\ loadTask = NoLoad
  /\ procTask = NoProc
  /\ last = NoLast
  /\ mounted = TRUE
  /\ lost = 0
  /\ revoked \in
       {CleanupUrls(pages, NoBlob)}
         \cup (IF \A j \in 1..Len(pages) : ~pages[j].selected
               THEN {{}} ELSE {})

ParseInit ==
  /\ \/ /\ file \in 1..MaxParsePages
        /\ pages \in PageLists(NumPages(file))
        /\ rangeInput \in RangeStrings
     \/ /\ file \in ExampleFiles
        /\ pages \in { FullList(NumPages(file), {}),
                       FullList(NumPages(file), 0..(NumPages(file) - 1)),
                       FullList(NumPages(file), {0, 3}) }
        /\ rangeInput \in ExampleInputs
  /\ mode = "custom"
  /\ outputMode = "single"
  /\ fixedRange = 1
  /\ EditorIdle

ParseNext == ApplyRange

ParseSpec == ParseInit /\ [][ParseNext]_vars

SplitInit ==
  /\ \/ /\ file \in 1..MaxSplitPages
        /\ pages \in PageLists(NumPages(file))
        /\ fixedRange \in 1..MaxSplitChunk
     \/ /\ file \in ExampleFiles
        /\ pages \in { FullList(NumPages(file), {}),
                       FullList(NumPages(file), {0, 3}) }
        /\ fixedRange \in {3, 5, 10, 12}
  /\ mode \in {"custom", "fixed"}
  /\ outputMode \in {"single", "separate"}
  /\ rangeInput = <<>>
  /\ EditorIdle

SplitNext ==
  \/ ProcessPDF
  \/ \E timestamp \in 1..MaxSplitTime : ProcessSucceed(timestamp)
  \/ ProcessFail

SplitSpec == SplitInit /\ [][SplitNext]_vars

\* Range strings with bounds far beyond the page count.
LoopInputs ==
  { <<>>,
    <<"1">>,
    <<"1", "-", "2">>,
    <<"2", "-", "1">>,
    <<"0", "-", "1">>,
    <<"x", "-", "1">>,
    <<"1", ",", "2">>,
    <<"I", "n", "f", "i", "n", "i", "t", "y">>,
    <<"1", "-", "I", "n", "f", "i", "n", "i", "t", "y">>,
    <<"I", "n", "f", "i", "n", "i", "t", "y", "-", "1">>,
    <<"I", "n", "f", "i", "n", "i", "t", "y", "-", "I", "n", "f", "i", "n", "i", "t", "y">>,
    <<"1", "e", "9">>,
    <<"1", "-", "1", "e", "9">>,
    <<"1", "e", "9", "-", "I", "n", "f", "i", "n", "i", "t", "y">>,
    <<"2", ",", "1", "-", "I", "n", "f", "i", "n", "i", "t", "y">>,
    <<"1", "E", "1", "-", "1">>,
    <<" ", "2", " ", "-", " ", "1", "e", "1", " ">> }

LoopInit ==
  /\ file \in 1..MaxParsePages
  /\ pages \in PageLists(NumPages(file))
  /\ rangeInput \in LoopInputs
  /\ mode = "custom"
  /\ outputMode = "single"
  /\ fixedRange = 1
  /\ EditorIdle

LoopNext ==
  \/ ApplyRangeCall
  \/ ForEachPart
  \/ ForLoop
  \/ ApplyRangeReturn

\* A handler that was called runs on: JavaScript executes it to its end
\* before anything else.
LoopSpec ==
  /\ LoopInit
  /\ [][LoopNext]_vars
  /\ WF_vars(ForEachPart)
  /\ WF_vars(ForLoop)
  /\ WF_vars(ApplyRangeReturn)

\* The editor with a loaded document in either mode: mode switches, page
\* clicks, the range box and processing.
FreezeInit ==
  /\ file \in 1..MaxParsePages
  /\ pages \in PageLists(NumPages(file))
  /\ mode \in {"custom", "fixed"}
  /\ outputMode \in {"single", "separate"}
  /\ fixedRange \in 1..MaxChunk
  /\ rangeInput \in TypedInputs
  /\ EditorIdle

FreezeNext ==
  \/ \E m \in {"custom", "fixed"} : SetMode(m)
  \/ \E index \in 0..(MaxParsePages - 1) : TogglePageSelection(index)
  \/ ApplyRange
  \/ ProcessPDF
  \/ \E timestamp \in Timestamps : ProcessSucceed(timestamp)
  \/ ProcessFail

FreezeSpec == FreezeInit /\ [][FreezeNext]_vars

(***************************************************************************)
(* Properties of the range parser (ParseSpec).                             *)
(*                                                                         *)
(* The range syntax as the specification states it: a token is a page      *)
(* number (a run of decimal digits, spaces around it allowed) or two page  *)
(* numbers joined by one dash; every other token is malformed.             *)
(***************************************************************************)
IsPageNumber(s) ==
  LET t == Trim(s) IN t # <<>> /\ \A i \in 1..Len(t) : IsDigit(t[i])

PageNumber(s) == DecimalValue(Trim(s))

Tokens(input) == Split(input, ",")

IsSingle(token) ==
  LET pieces == Split(token, "-")
  IN Len(pieces) = 1 /\ IsPageNumber(pieces[1])

IsPair(token) ==
  LET pieces == Split(token, "-")
  IN Len(pieces) = 2 /\ IsPageNumber(pieces[1]) /\ IsPageNumber(pieces[2])

WellFormed(input) ==
  \A k \in 1..Len(Tokens(input)) :
    IsSingle(Tokens(input)[k]) \/ IsPair(Tokens(input)[k])

\* Token selects the 1-based page i.
Covers(token, i) ==
  LET pieces == Split(token, "-")
  IN \/ IsSingle(token) /\ PageNumber(pieces[1]) = i
     \/ /\ IsPair(token)
        /\ Min(PageNumber(pieces[1]), PageNumber(pieces[2])) <= i
        /\ i <= Max(PageNumber(pieces[1]), PageNumber(pieces[2]))

\* The zero-based indices the well-formed tokens of input select among n
\* pages; malformed tokens select nothing.
ExpectedIndices(input, n) ==
  { i - 1 : i \in { j \in 1..n :
      \E k \in 1..Len(Tokens(input)) : Covers(Tokens(input)[k], j) } }

\* The indices of the pages flagged selected.
SelectedSet(ps) == { ps[j].index : j \in { h \in 1..Len(ps) : ps[h].selected } }

\* The page list holds every page 0..Len-1: no page was left out by loadPDF.
IsFull(ps) == \A j \in 1..Len(ps) : ps[j].index = j - 1

\* applyRange ran last and got past its early return.
Applied == last.op = "applyRange" /\ ~last.returned

FiveToTwo == <<"5", "-", "2">>

OneToThreeFiveEight == <<"1", "-", "3", ",", " ", "5", ",", " ", "8">>

Overlapping == <<"1", "-", "3", ",", " ", "2", ",", " ", "3", "-", "1">>

\* C1: after applyRange on a non-empty input whose tokens are all page
\* numbers or pairs of page numbers, over a page list of N entries, the parsed
\* set selectedIndices is exactly {i-1 : 1 <= i <= N, some token v = i or some
\* token a-b has min(a,b) <= i <= max(a,b)}; when the page list holds every
\* page, the pages flagged selected are exactly that set; "5-2" over at least
\* 5 pages gives {1,2,3,4}.
C1_RangeParserResult ==
  (Applied /\ WellFormed(rangeInput)) =>
    /\ last.selectedIndices = ExpectedIndices(rangeInput, Len(pages))
    /\ IsFull(pages) =>
         SelectedSet(pages) = ExpectedIndices(rangeInput, Len(pages))
    /\ (rangeInput = FiveToTwo /\ Len(pages) >= 5) =>
         last.selectedIndices = {1, 2, 3, 4}

C1_Witness ==
  /\ Applied
  /\ rangeInput = FiveToTwo
  /\ Len(pages) = 5
  /\ SelectedSet(pages) = {1, 2, 3, 4}

\* C3: after applyRange on any non-empty range string over a page list of N
\* entries, every parsed index and every index flagged selected lies in
\* [0, N), no page is flagged twice, and with a page list holding every page
\* the number of pages flagged equals the number of distinct pages the tokens
\* cover, however many tokens cover the same page.
C3_BoundsAndDedup ==
  Applied =>
    LET n == Len(pages)
        parts == Split(rangeInput, ",")
        covered == { i \in 1..n :
                       \E k \in 1..Len(parts) : (i - 1) \in PartIndices(parts[k], n) }
    IN /\ last.selectedIndices \subseteq 0..(n - 1)
       /\ SelectedSet(pages) \subseteq 0..(n - 1)
       /\ Len(SelectedPages(pages)) = Cardinality(SelectedSet(pages))
       /\ Cardinality(last.selectedIndices) = Cardinality(covered)
       /\ IsFull(pages) => Len(SelectedPages(pages)) = Cardinality(covered)
       /\ (rangeInput = Overlapping /\ IsFull(pages) /\ n >= 3) =>
            Len(SelectedPages(pages)) = 3

C3_Witness ==
  /\ Applied
  /\ rangeInput = Overlapping
  /\ Len(pages) = 5
  /\ SelectedSet(pages) = {0, 1, 2}
  /\ Len(SelectedPages(pages)) = 3

\* C4 (the claim as stated): after applyRange, the parsed set is what the
\* well-formed tokens select; a malformed token (non-numeric text, "5-", "-3",
\* "-", "1-2-3") adds no page.
C4_MalformedIgnored ==
  Applied => last.selectedIndices = ExpectedIndices(rangeInput, Len(pages))

\* C9 (the claim as stated): "1-3, 5, 8" over a 10-page document yields
\* {0,1,2,5,7}.
C9_ExampleAsStated ==
  (Applied /\ rangeInput = OneToThreeFiveEight /\ Len(pages) = 10) =>
    last.selectedIndices = {0, 1, 2, 5, 7}

\* C9 (amended): "1-3, 5, 8" over a 10-page document yields {0,1,2,4,7}, and
\* with the page list holding all 10 pages exactly those pages are flagged.
C9_ExampleAmended ==
  (Applied /\ rangeInput = OneToThreeFiveEight /\ Len(pages) = 10) =>
    /\ last.selectedIndices = {0, 1, 2, 4, 7}
    /\ IsFull(pages) => SelectedSet(pages) = {0, 1, 2, 4, 7}

C9_Witness ==
  /\ Applied
  /\ rangeInput = OneToThreeFiveEight
  /\ Len(pages) = 10
  /\ IsFull(pages)
  /\ SelectedSet(pages) = {0, 1, 2, 4, 7}

\* C10: after applyRange on a non-empty input, the page list is the prior one
\* with each page's selected flag equal to "its index is in the parsed set",
\* whatever the flag was before: a page selected before and not in the parsed
\* set is unselected, and an empty parsed set leaves no page selected.
C10_ReplacesSelection ==
  Applied =>
    LET parsed == SelectedIndices(rangeInput, Len(last.prev))
    IN /\ Len(pages) = Len(last.prev)
       /\ \A j \in 1..Len(pages) :
            /\ pages[j].index = last.prev[j].index
            /\ pages[j].selected = (pages[j].index \in parsed)
       /\ parsed = {} => SelectedSet(pages) = {}

C10_Witness ==
  /\ Applied
  /\ \E j \in 1..Len(pages) :
       /\ last.prev[j].selected
       /\ ~pages[j].selected
       /\ pages[j].index \notin last.selectedIndices
  /\ \E j \in 1..Len(pages) : ~last.prev[j].selected /\ pages[j].selected

(***************************************************************************)
(* Properties of processPDF's output (SplitSpec, Spec).                    *)
(***************************************************************************)
\* processPDF settled last, without throwing and past its early return: the
\* state holds the result it set.
Succeeded == last.op = "processPDF" /\ last.settled /\ last.ok

\* The documents of the archive's entries, in entry order.
Groups == [e \in 1..Len(resultUrl.entries) |-> resultUrl.entries[e].doc]

\* The page indices of a document.
DocPages(doc) == { doc[j] : j \in 1..Len(doc) }

\* C2: after a successful fixed-mode processPDF over a page list of pageCount
\* entries with chunk size k, there are exactly ceil(pageCount / k) groups,
\* group i is the contiguous run [i*k, min(i*k+k, pageCount)), the groups are
\* non-empty and pairwise disjoint, only the last may be shorter than k, and
\* their union is [0, pageCount): every page of the document when the page
\* list holds them all. 10 pages with k = 3 give [0-2],[3-5],[6-8],[9-9].
C2_FixedPartition ==
  (Succeeded /\ last.closure.mode = "fixed") =>
    LET pageCount == Len(last.closure.pages)
        k == last.closure.fixedRange
        count == Len(Groups)
    IN /\ count * k >= pageCount
       /\ (count - 1) * k < pageCount
       /\ \A i \in 0..(count - 1) :
            /\ Len(Groups[i + 1]) = Min((i * k) + k, pageCount) - (i * k)
            /\ \A j \in 1..Len(Groups[i + 1]) :
                 Groups[i + 1][j] = (i * k) + (j - 1)
            /\ Len(Groups[i + 1]) >= 1
            /\ i < count - 1 => Len(Groups[i + 1]) = k
            /\ Len(Groups[i + 1]) <= k
       /\ \A g, h \in 1..count :
            g # h => DocPages(Groups[g]) \cap DocPages(Groups[h]) = {}
       /\ UNION { DocPages(Groups[g]) : g \in 1..count } = 0..(pageCount - 1)
       /\ (IsFull(last.closure.pages)
             /\ pageCount = NumPages(last.closure.file)) =>
            UNION { DocPages(Groups[g]) : g \in 1..count }
              = 0..(NumPages(last.closure.file) - 1)
       /\ (pageCount = 10 /\ k = 3) =>
            Groups = << <<0, 1, 2>>, <<3, 4, 5>>, <<6, 7, 8>>, <<9>> >>

C2_Witness ==
  /\ Succeeded
  /\ last.closure.mode = "fixed"
  /\ Len(last.closure.pages) = 10
  /\ last.closure.fixedRange = 3
  /\ Groups = << <<0, 1, 2>>, <<3, 4, 5>>, <<6, 7, 8>>, <<9>> >>

C6_SeparateOutput ==
  (Succeeded /\ last.closure.mode = "custom"
     /\ last.closure.outputMode = "separate") =>
    LET selected == SelectedSet(last.closure.pages)
        entries == resultUrl.entries
    IN /\ resultUrl.type = "zip"
       /\ selected # {}
       /\ Len(entries) = Cardinality(selected)
       /\ \A j \in selected :
            \E e \in 1..Len(entries) :
              /\ entries[e].name = "page_" \o NumStr(j + 1) \o ".pdf"
              /\ entries[e].doc = <<j>>
       /\ \A e \in 1..Len(entries) :
            \E j \in selected :
              /\ entries[e].name = "page_" \o NumStr(j + 1) \o ".pdf"
              /\ entries[e].doc = <<j>>

C6_Witness ==
  /\ Succeeded
  /\ last.closure.mode = "custom"
  /\ last.closure.outputMode = "separate"
  /\ Len(last.closure.pages) = 4
  /\ SelectedSet(last.closure.pages) = {0, 2}
  /\ resultUrl.entries = << [name |-> "page_1.pdf", doc |-> <<0>>],
                            [name |-> "page_3.pdf", doc |-> <<2>>] >>

\* C7: a successful custom-mode processPDF with output mode 'single' sets one
\* PDF (not an archive) named extracted_<timestamp>.pdf, holding exactly the
\* selected pages, each once, in ascending page index, whatever the order in
\* which the pages were toggled or listed in the range string.
C7_MergeOutput ==
  (Succeeded /\ last.closure.mode = "custom"
     /\ last.closure.outputMode = "single") =>
    LET selected == SelectedSet(last.closure.pages)
        doc == resultUrl.doc
    IN /\ resultUrl.type = "pdf"
       /\ resultUrl.entries = <<>>
       /\ resultFilename = "extracted_" \o NumStr(last.timestamp) \o ".pdf"
       /\ DocPages(doc) = selected
       /\ Len(doc) = Cardinality(selected)
       /\ \A j \in 1..(Len(doc) - 1) : doc[j] < doc[j + 1]

C7_Witness ==
  /\ Succeeded
  /\ last.closure.mode = "custom"
  /\ last.closure.outputMode = "single"
  /\ resultUrl = PdfBlob(<<0, 1>>)
  /\ resultFilename = "extracted_1.pdf"

C11_EmptyRangeNoOp ==
  [][(rangeInput = <<>> /\ last'.op = "applyRange")
       => UNCHANGED <<pages, resultUrl, resultFilename, revoked, file, mode,
                      outputMode, fixedRange, rangeInput>>]_vars

C11_Witness ==
  /\ last.op = "applyRange"
  /\ last.returned
  /\ rangeInput = <<>>
  /\ resultUrl # NoBlob
  /\ resultFilename = "extracted_1.pdf"
  /\ SelectedSet(pages) = {0, 1}

\* Two result file names that differ in the timestamp at most.
SameButTimestamp(a, b) ==
  \E prefix \in {"split_fixed_", "extracted_", "extracted_pages_"} :
    \E ext \in {".zip", ".pdf"} :
      \E s, t \in 1..MaxSplitTime :
        /\ a = prefix \o NumStr(s) \o ext
        /\ b = prefix \o NumStr(t) \o ext

\* C12: when processPDF succeeds over a file, mode, output mode, chunk size
\* and selection with which an earlier run already set a result (in SplitSpec
\* none of them ever changes), the new result has the shape of the earlier
\* one: the same artifact kind, the same entries with the same names and the
\* same page groups in the same order; the outer file name differs in the
\* timestamp at most.
C12_IdempotentShape ==
  (Succeeded /\ last.before.url # NoBlob) =>
    /\ resultUrl.type = last.before.url.type
    /\ Len(resultUrl.entries) = Len(last.before.url.entries)
    /\ \A e \in 1..Len(resultUrl.entries) :
         /\ resultUrl.entries[e].name = last.before.url.entries[e].name
         /\ resultUrl.entries[e].doc = last.before.url.entries[e].doc
    /\ resultUrl.doc = last.before.url.doc
    /\ SameButTimestamp(resultFilename, last.before.filename)

C12_Witness ==
  /\ Succeeded
  /\ last.before.url # NoBlob
  /\ last.before.filename = "split_fixed_1.zip"
  /\ resultFilename = "split_fixed_2.zip"
  /\ Len(resultUrl.entries) = 4
  /\ resultUrl = last.before.url

\* The closure a processPDF call started now would run with.
CurrentClosure ==
  [active |-> TRUE, file |-> file, pages |-> pages, mode |-> mode,
   outputMode |-> outputMode, fixedRange |-> fixedRange]

\* C13 (the claim as stated): whenever the editor offers a result, it is the
\* output of processPDF for the current mode, output mode, chunk size and
\* page selection.
C13_ResultMatchesConfiguration ==
  (EditorShown /\ resultUrl # NoBlob) =>
    /\ ~ProcessOutcome(CurrentClosure, 1).returned
    /\ resultUrl = ProcessOutcome(CurrentClosure, 1).url

\* C14 (the claim as stated): while loadPDF or processPDF is in flight, no
\* step changes the file, the mode, the output mode, the chunk size or the
\* range text, and the page list changes only when the load in flight ends.
C14_NoUserActionWhileBusy ==
  [][(isLoading \/ isProcessing) =>
       /\ UNCHANGED <<file, mode, outputMode, fixedRange, rangeInput>>
       /\ pages' # pages => (loadTask.active /\ ~loadTask'.active)]_vars

\* C15: the step that starts processPDF changes nothing but isProcessing, and
\* the step in which a processPDF call fails raises the alert, sets
\* isProcessing to false and leaves resultUrl, resultFilename, the page list
\* with its selection, the file and the configuration as they were, with no
\* URL created or revoked: without a user action in between, the state after
\* the failure is the state before the invocation.
C15_FailedProcessingKeepsState ==
  [][/\ (mounted /\ procTask.active /\ last'.op = "processPDF"
           /\ last'.alert # "") =>
          /\ last'.alert = "Failed to process pages."
          /\ ~isProcessing'
          /\ ~procTask'.active
          /\ UNCHANGED <<resultUrl, resultFilename, pages, file, mode,
                         outputMode, fixedRange, rangeInput, revoked, lost>>
     /\ (~procTask.active /\ procTask'.active) =>
          UNCHANGED <<resultUrl, resultFilename, pages, file, mode,
                      outputMode, fixedRange, rangeInput, revoked, lost>>]_vars

C15_Witness ==
  /\ last.op = "processPDF"
  /\ last.alert = "Failed to process pages."
  /\ ~isProcessing
  /\ resultUrl.type = "zip"
  /\ resultFilename = "extracted_pages_2.zip"
  /\ SelectedSet(pages) = {0, 3}

\* C16 (the claim as stated): after the user asks for processing in custom
\* mode with no page selected, a notice has been shown.
C16_EmptySelectionReported ==
  (last.op = "processClick" /\ mode = "custom" /\ ~isProcessing
     /\ SelectedSet(pages) = {}) =>
    last.alert # ""

(***************************************************************************)
(* Properties of loadPDF and of the object URLs (UrlSpec).                 *)
(***************************************************************************)
\* C17 (the claim as stated): a loadPDF call that ended without a notice
\* rendered every page of the document: a page whose canvas context was
\* unavailable aborts the load with a notice and leaves no partial page list.
C17_RenderFailureAborts ==
  (mounted /\ last.op = "loadPDF" /\ last.alert = "") =>
    Len(pages) = NumPages(file)

\* C18 (the claim as stated): after loadPDF failed with its notice, isLoading
\* is false and the state is the one before the load started; the upload
\* area is shown only without a file, so no file was held then.
C18_LoadFailureRestores ==
  (mounted /\ last.op = "loadPDF" /\ last.alert # "") =>
    /\ ~isLoading
    /\ file = NoFile

\* C19 (the claim as stated): once the component is unmounted, every URL its
\* state holds has been revoked and no created URL is left unrevoked.
C19_TeardownReleasesAll ==
  ~mounted =>
    /\ CleanupUrls(pages, resultUrl) \subseteq revoked
    /\ lost = 0

\* C20 (the claim as stated): while the component is mounted, no URL held in
\* pages or resultUrl has been revoked.
C20_NoUrlRevokedInUse ==
  mounted => revoked \cap CleanupUrls(pages, resultUrl) = {}

(***************************************************************************)
(* PDFMergeTool (src/unnamed/part_003, lines 553-843). An item is          *)
(* [id, previewUrl, isLoadingPreview]; its file is identified by its id.   *)
(* previewUrl is "null" or "data" (the data URL of the thumbnail).         *)
(*                                                                         *)
(* A handler reads items from the render it was attached in. A state       *)
(* update made in an event handler is rendered before the next event; one  *)
(* made after an await (a thumbnail completion) is rendered in a later     *)
(* task of the scheduler, and an event that was queued first is handled    *)
(* with the items of the previous render.                                  *)
(***************************************************************************)
Ids(list) == [j \in 1..Len(list) |-> list[j].id]

IdSet(list) == {list[j].id : j \in 1..Len(list)}

\* newFiles.map(file => ({id, file, previewUrl: null, isLoadingPreview:
\* true})) (lines 623-628), the ids being first + 1 .. first + n.
NewItems(first, n) ==
  [j \in 1..n |-> [id |-> first + j, previewUrl |-> "null",
                   isLoadingPreview |-> TRUE]]

\* handleFileChange (lines 617-640) up to its first await.
AddFiles(n) ==
  /\ nextId + n <= MaxItems
  /\ mergedPdfUrl' = NoUrl
  /\ items' = items \o NewItems(nextId, n)
  /\ renderedItems' = items \o NewItems(nextId, n)
  /\ thumbnails' = thumbnails \cup
                     {[ids |-> Ids(NewItems(nextId, n)),
                       left |-> Ids(NewItems(nextId, n))]}
  /\ nextId' = nextId + n
  /\ mergeLast' = [op |-> "handleFileChange"]
  /\ UNCHANGED <<mergeIsProcessing, mergeTask>>
  /\ UNCHANGED <<splitVars, applyTask, compressorVars, watermarkVars, appVars>>

\* prev.map(p => p.id === item.id ? {...p, previewUrl: preview,
\* isLoadingPreview: false} : p) (lines 635-637)
WithThumbnail(prev, id, preview) ==
  [j \in 1..Len(prev) |->
     IF prev[j].id = id
     THEN [prev[j] EXCEPT !.previewUrl = preview, !.isLoadingPreview = FALSE]
     ELSE prev[j]]

\* One iteration of the thumbnail loop of a handleFileChange call (lines
\* 633-638): generateThumbnail settles, with a data URL or with null (it
\* catches what its calls reject with, lines 589-612), and the item is
\* updated. The render of the update is pending.
ThumbnailSettles(batch, preview) ==
  /\ batch \in thumbnails
  /\ batch.left # <<>>
  /\ items' = WithThumbnail(items, Head(batch.left), preview)
  /\ thumbnails' = (thumbnails \ {batch})
                       \cup {[batch EXCEPT !.left = Tail(@)]}
  /\ mergeLast' = [op |-> "thumbnail", id |-> Head(batch.left)]
  /\ UNCHANGED <<mergeIsProcessing, mergedPdfUrl, renderedItems, mergeTask,
                 nextId>>
  /\ UNCHANGED <<splitVars, applyTask, compressorVars, watermarkVars, appVars>>

\* The render of the updates made after an await.
RenderItems ==
  /\ renderedItems # items
  /\ renderedItems' = items
  /\ mergeLast' = [op |-> "render"]
  /\ UNCHANGED <<items, mergeIsProcessing, mergedPdfUrl, thumbnails,
                 mergeTask, nextId>>
  /\ UNCHANGED <<splitVars, applyTask, compressorVars, watermarkVars, appVars>>

\* removeItem (lines 642-649), the onClick of the X of a rendered item.
RemoveItem(id) ==
  /\ id \in IdSet(renderedItems)
  /\ items' = SelectSeq(items, LAMBDA p : p.id # id)
  /\ renderedItems' = SelectSeq(items, LAMBDA p : p.id # id)
  /\ mergedPdfUrl' = NoUrl
  /\ mergeLast' = [op |-> "removeItem", id |-> id]
  /\ UNCHANGED <<mergeIsProcessing, thumbnails, mergeTask, nextId>>
  /\ UNCHANGED <<splitVars, applyTask, compressorVars, watermarkVars, appVars>>

\* SwapIndex giving the first or the last position of the list.
SwapIndexEnd(index, direction, length) ==
  IF direction = "left" THEN 0 ELSE length - 1

\* direction === 'left' ? index - 1 : index + 1 (line 658)
SwapIndex(index, direction, length) ==
  IF direction = "left" THEN index - 1 ELSE index + 1

\* The early return of moveItem (lines 652-655).
AtBoundary(list, index, direction) ==
  \/ direction = "left" /\ index = 0
  \/ direction = "right" /\ index = Len(list) - 1

\* newItems after the swap (lines 657-659); index counts from 0.
MovedItems(list, index, direction) ==
  LET swapIndex == SwapIndex(index, direction, Len(list))
  IN [j \in 1..Len(list) |->
        IF j = index + 1 THEN list[swapIndex + 1]
        ELSE IF j = swapIndex + 1 THEN list[index + 1]
        ELSE list[j]]

\* moveItem (lines 651-662), the onClick of an arrow of the rendered item
\* at index. The arrows at the two ends are disabled (lines 772, 780); the
\* handler makes the same test again.
MoveItem(index, direction) ==
  /\ index \in 0..(Len(renderedItems) - 1)
  /\ IF AtBoundary(renderedItems, index, direction)
     THEN UNCHANGED <<items, renderedItems, mergedPdfUrl>>
     ELSE /\ items' = MovedItems(renderedItems, index, direction)
          /\ renderedItems' = MovedItems(renderedItems, index, direction)
          /\ mergedPdfUrl' = NoUrl
  /\ mergeLast' = [op |-> "moveItem", index |-> index,
                   direction |-> direction,
                   returned |-> AtBoundary(renderedItems, index, direction)]
  /\ UNCHANGED <<mergeIsProcessing, thumbnails, mergeTask, nextId>>
  /\ UNCHANGED <<splitVars, applyTask, compressorVars, watermarkVars, appVars>>

\* disabled={isProcessing || items.length < 2} (line 814)
MergeDisabled == mergeIsProcessing \/ Len(renderedItems) < 2

\* mergePDFs (lines 664-691) up to its first await. The alert of line 666
\* needs fewer than 2 items, for which the button is disabled.
MergePDFs ==
  /\ ~MergeDisabled
  /\ mergeIsProcessing' = TRUE
  /\ mergeTask' = [active |-> TRUE, ids |-> Ids(renderedItems)]
  /\ mergeLast' = [op |-> "mergePDFs"]
  /\ UNCHANGED <<items, mergedPdfUrl, renderedItems, thumbnails, nextId>>
  /\ UNCHANGED <<splitVars, applyTask, compressorVars, watermarkVars, appVars>>

\* The documents are copied in the order of the call's items and the URL
\* is set (lines 672-683), then finally (lines 687-689).
MergeSucceeds ==
  /\ mergeTask.active
  /\ mergedPdfUrl' = [made |-> TRUE, ids |-> mergeTask.ids]
  /\ mergeIsProcessing' = FALSE
  /\ mergeTask' = NoMerge
  /\ mergeLast' = [op |-> "merged", alert |-> ""]
  /\ UNCHANGED <<items, renderedItems, thumbnails, nextId>>
  /\ UNCHANGED <<splitVars, applyTask, compressorVars, watermarkVars, appVars>>

\* An awaited call rejects: catch (lines 684-686), then finally.
MergeFails ==
  /\ mergeTask.active
  /\ mergeIsProcessing' = FALSE
  /\ mergeTask' = NoMerge
  /\ mergeLast' = [op |-> "merged", alert |-> "Failed to merge PDFs."]
  /\ UNCHANGED <<items, mergedPdfUrl, renderedItems, thumbnails, nextId>>
  /\ UNCHANGED <<splitVars, applyTask, compressorVars, watermarkVars, appVars>>

Directions == {"left", "right"}

Previews == {"null", "data"}

\* The list and its thumbnails: additions, thumbnail completions, removals
\* and moves.
ThumbnailNext ==
  \/ \E n \in 1..MaxBatch : AddFiles(n)
  \/ \E batch \in thumbnails, preview \in Previews :
        ThumbnailSettles(batch, preview)
  \/ RenderItems
  \/ \E id \in 1..MaxItems : RemoveItem(id)
  \/ \E index \in 0..(MaxItems - 1), direction \in Directions :
        MoveItem(index, direction)

ThumbnailSpec == Init /\ [][ThumbnailNext]_vars

\* Every order of the items 1..n with their thumbnails made.
Orders(n) ==
  { list \in [1..n -> [id : 1..n, previewUrl : {"data"},
                       isLoadingPreview : {FALSE}]] :
      \A j, h \in 1..n : j # h => list[j].id # list[h].id }

\* A list of up to MaxMoveItems items, with or without a merged document.
MoveInit ==
  /\ OtherToolsInitExceptMerge
  /\ PDFSplitToolInit
  /\ \E n \in 0..MaxMoveItems :
        /\ items \in Orders(n)
        /\ nextId = n
  /\ renderedItems = items
  /\ mergedPdfUrl \in {NoUrl} \cup
        (IF Len(items) >= 2 THEN {[made |-> TRUE, ids |-> Ids(items)]} ELSE {})
  /\ mergeIsProcessing = FALSE
  /\ thumbnails = {}
  /\ mergeTask = NoMerge
  /\ mergeLast = NoLast

MoveNext ==
  \/ \E index \in 0..(MaxMoveItems - 1), direction \in Directions :
        MoveItem(index, direction)
  \/ MergePDFs
  \/ MergeSucceeds
  \/ MergeFails

MoveSpec == MoveInit /\ [][MoveNext]_vars

(***************************************************************************)
(* PDFWatermarkTool (src/unnamed/part_003, lines 1-434). The preview       *)
(* images (previewImage, watermarkPreview) are left out: no handler        *)
(* modelled here reads them. settings.watermarkImage is 0 for null and 1   *)
(* for a chosen image.                                                     *)
(***************************************************************************)
WatermarkFiles == 1..MaxWatermarkFiles

\* handleFileChange (lines 55-88) up to its first await; the upload area is
\* rendered while there is no file (line 229).
ChooseWatermarkFile(f) ==
  /\ watermarkFile = NoFile
  /\ watermarkFile' = f
  /\ watermarkResultUrl' = NoUrl
  /\ UNCHANGED <<settings, watermarkIsProcessing, watermarkTask>>
  /\ UNCHANGED <<splitVars, applyTask, compressorVars, mergeVars, appVars>>

\* onClick of the X next to the file name (line 239)
RemoveWatermarkFile ==
  /\ watermarkFile # NoFile
  /\ watermarkFile' = NoFile
  /\ watermarkResultUrl' = NoUrl
  /\ UNCHANGED <<settings, watermarkIsProcessing, watermarkTask>>
  /\ UNCHANGED <<splitVars, applyTask, compressorVars, mergeVars, appVars>>

\* The control of a setting is rendered: the text controls under the text
\* tab, the image input under the image tab, the image scale once an image
\* was chosen (lines 310-355); the tabs and the common controls always.
SettingShown(name) ==
  /\ watermarkFile # NoFile
  /\ name \in {"text", "textSize", "textColor", "isBold", "isItalic"} =>
        settings["type"] = 0
  /\ name = "watermarkImage" => settings["type"] = 1
  /\ name = "imageScale" =>
        settings["type"] = 1 /\ settings["watermarkImage"] = 1

\* What a change of a setting does to resultUrl: the setters (lines 293,
\* 299, 316-328, 350, 367, 384, 393) and handleWatermarkImageChange (lines
\* 90-96) do not touch it.
SettingChange(url) == url

\* The onChange / onClick of the control of a setting, with a new value.
SetSetting(name, value) ==
  /\ SettingShown(name)
  /\ settings[name] # value
  /\ name = "watermarkImage" => value = 1
  /\ Cardinality({n \in SettingNames :
                    [settings EXCEPT ![name] = value][n] # 0}) <= MaxChanged
  /\ settings' = [settings EXCEPT ![name] = value]
  /\ watermarkResultUrl' = SettingChange(watermarkResultUrl)
  /\ UNCHANGED <<watermarkFile, watermarkIsProcessing, watermarkTask>>
  /\ UNCHANGED <<splitVars, applyTask, compressorVars, mergeVars, appVars>>

\* processPDF (lines 98-196) up to its first await; the button is disabled
\* while isProcessing (line 410).
WatermarkPDF ==
  /\ watermarkFile # NoFile
  /\ ~watermarkIsProcessing
  /\ watermarkIsProcessing' = TRUE
  /\ watermarkTask' = [active |-> TRUE, file |-> watermarkFile,
                       settings |-> settings]
  /\ UNCHANGED <<watermarkFile, settings, watermarkResultUrl>>
  /\ UNCHANGED <<splitVars, applyTask, compressorVars, mergeVars, appVars>>

\* The watermark is drawn with the settings of the call and the URL is set
\* (lines 102-186), then finally (lines 191-193).
WatermarkSucceeds ==
  /\ watermarkTask.active
  /\ watermarkResultUrl' = [made |-> TRUE, file |-> watermarkTask.file,
                            settings |-> watermarkTask.settings]
  /\ watermarkIsProcessing' = FALSE
  /\ watermarkTask' = NoWatermark
  /\ UNCHANGED <<watermarkFile, settings>>
  /\ UNCHANGED <<splitVars, applyTask, compressorVars, mergeVars, appVars>>

\* An awaited call rejects: catch (lines 188-190), then finally.
WatermarkFails ==
  /\ watermarkTask.active
  /\ watermarkIsProcessing' = FALSE
  /\ watermarkTask' = NoWatermark
  /\ UNCHANGED <<watermarkFile, settings, watermarkResultUrl>>
  /\ UNCHANGED <<splitVars, applyTask, compressorVars, mergeVars, appVars>>

WatermarkNext ==
  \/ \E f \in WatermarkFiles : ChooseWatermarkFile(f)
  \/ RemoveWatermarkFile
  \/ \E name \in SettingNames, value \in {0, 1} : SetSetting(name, value)
  \/ WatermarkPDF
  \/ WatermarkSucceeds
  \/ WatermarkFails

WatermarkSpec == Init /\ [][WatermarkNext]_vars

(***************************************************************************)
(* App (src/unnamed/part_003, lines 449-552): the recent-tools history.    *)
(***************************************************************************)
\* enum View (src/types.ts, lines 1-10)
Views ==
  {"DASHBOARD", "QR_CODE", "PDF_COMPRESS", "PDF_MERGE", "PDF_SPLIT",
   "PDF_WATERMARK", "IMAGE_COMPRESS", "URL_SHORTENER"}

\* Array.prototype.slice(0, n)
Slice(list, n) == SubSeq(list, 1, Min(n, Len(list)))

\* NewRecent without the filter: the view is put in front of prev as it is.
NewRecentUnfiltered(view, prev) == Slice(<<view>> \o prev, HistoryLength)

\* [view, ...prev.filter(v => v !== view)].slice(0, 5) (line 499)
NewRecent(view, prev) ==
  Slice(<<view>> \o SelectSeq(prev, LAMBDA v : v # view), HistoryLength)

\* JSON.stringify of an array of strings, as tokens: the brackets, the
\* commas, and each string literal written as the string it denotes.
RECURSIVE JsonElements(_)
JsonElements(list) ==
  IF list = <<>> THEN <<>>
  ELSE IF Len(list) = 1 THEN <<list[1]>>
  ELSE <<list[1], ",">> \o JsonElements(Tail(list))

JsonStringify(list) == <<"[">> \o JsonElements(list) \o <<"]">>

\* JSON.parse of such a text: the strings between the brackets.
JsonParse(text) == SelectSeq(text, LAMBDA t : t \notin {"[", ",", "]"})

\* navigateTo (lines 495-505)
NavigateTo(view) ==
  /\ currentView' = view
  /\ IF view # "DASHBOARD"
     THEN /\ recentTools' = NewRecent(view, recentTools)
          /\ localStorage' = JsonStringify(NewRecent(view, recentTools))
     ELSE UNCHANGED <<recentTools, localStorage>>
  /\ UNCHANGED <<splitVars, applyTask, compressorVars, mergeVars,
                 watermarkVars>>

\* What the initialisation effect makes of the stored text (lines 471-475):
\* if (savedRecent) setRecentTools(JSON.parse(savedRecent)), over the
\* initial [].
SavedRecent(text) == IF text # NoItem THEN JsonParse(text) ELSE <<>>

\* The page is loaded again: App is constructed (lines 450-454) and its
\* initialisation effect runs (lines 457-476).
Reload ==
  /\ currentView' = "DASHBOARD"
  /\ recentTools' = SavedRecent(localStorage)
  /\ UNCHANGED localStorage
  /\ UNCHANGED <<splitVars, applyTask, compressorVars, mergeVars,
                 watermarkVars>>

AppNext ==
  \/ \E view \in Views : NavigateTo(view)
  \/ Reload

AppSpec == Init /\ [][AppNext]_vars

(***************************************************************************)
(* The long-running actions of the four PDF tools. App renders one tool at *)
(* a time (renderContent, lines 510-517): the tool of currentView.         *)
(***************************************************************************)
Open(view) == currentView = view

PdfTools == {"PDF_SPLIT", "PDF_COMPRESS", "PDF_MERGE", "PDF_WATERMARK"}

\* App after navigateTo(view) from its initial state, with the tool of the
\* view in its initial state.
BusyInit ==
  /\ currentView \in PdfTools
  /\ recentTools = NewRecent(currentView, <<>>)
  /\ localStorage = JsonStringify(NewRecent(currentView, <<>>))
  /\ applyTask = NoApply
  /\ PDFCompressorToolInit
  /\ PDFMergeToolInit
  /\ PDFWatermarkToolInit
  /\ PDFSplitToolInit

BusyNext ==
  \/ Open("PDF_SPLIT") /\ \E f \in Files : HandleFileChange(f)
  \/ \E rendered \in BOOLEAN : LoadPage(rendered)
  \/ LoadDone
  \/ LoadFail
  \/ Open("PDF_SPLIT") /\ RemoveFile
  \/ Open("PDF_SPLIT") /\ \E select \in BOOLEAN : SelectAll(select)
  \/ Open("PDF_SPLIT") /\ ProcessPDF
  \/ \E timestamp \in Timestamps : ProcessSucceed(timestamp)
  \/ ProcessFail
  \/ Open("PDF_COMPRESS") /\ \E f \in CompressorFiles : ChooseFile(f)
  \/ Open("PDF_COMPRESS") /\ RemoveCompressorFile
  \/ Open("PDF_COMPRESS") /\ CompressPDF
  \/ CompressLoaded
  \/ CompressPage
  \/ CompressSucceeds
  \/ CompressFails
  \/ Open("PDF_COMPRESS") /\ ResetCompressor
  \/ Open("PDF_MERGE") /\ \E n \in 1..MaxBatch : AddFiles(n)
  \/ Open("PDF_MERGE") /\ \E id \in 1..MaxItems : RemoveItem(id)
  \/ Open("PDF_MERGE") /\ MergePDFs
  \/ MergeSucceeds
  \/ MergeFails
  \/ Open("PDF_WATERMARK") /\ \E f \in WatermarkFiles : ChooseWatermarkFile(f)
  \/ Open("PDF_WATERMARK") /\ RemoveWatermarkFile
  \/ Open("PDF_WATERMARK") /\ WatermarkPDF
  \/ WatermarkSucceeds
  \/ WatermarkFails

\* The steps a call in flight takes when the call it awaits settles.
LoadSettles ==
  \/ LoadFail
  \/ LoadDone
  \/ \E rendered \in BOOLEAN : LoadPage(rendered)

ProcessSettles ==
  \/ ProcessFail
  \/ \E timestamp \in Timestamps : ProcessSucceed(timestamp)

CompressSettles ==
  \/ CompressFails
  \/ CompressLoaded
  \/ CompressPage
  \/ CompressSucceeds

MergeSettles == MergeFails \/ MergeSucceeds

WatermarkSettles == WatermarkFails \/ WatermarkSucceeds

\* Every awaited library call eventually settles.
BusySpec ==
  /\ BusyInit
  /\ [][BusyNext]_vars
  /\ WF_vars(LoadSettles)
  /\ WF_vars(ProcessSettles)
  /\ WF_vars(CompressSettles)
  /\ WF_vars(MergeSettles)
  /\ WF_vars(WatermarkSettles)

(***************************************************************************)
(* Properties of the PDF compressor (CompressorSpec).                      *)
(***************************************************************************)
\* The source pages 1..n in their order.
SourceOrder(n) == [j \in 1..n |-> j]

\* The indices of a preview list go up.
IndexAscending(list) ==
  \A j, h \in 1..Len(list) : j < h => list[j].index < list[h].index

\* C22: compressPDF and loadPDF handle the pages one at a time in ascending
\* order: when page i is next, the new document holds exactly the pages
\* 1..i-1 in that order and the preview list holds pages before i in
\* ascending order; a result holds every source page in source order and a
\* loaded preview list is in source order; the reported progress never
\* exceeds its total and never goes down.
C22_PagesInOrderOneAtATime ==
  /\ []((compressTask.active /\ compressTask.loaded) =>
          /\ compressTask.i <= compressTask.totalPages + 1
          /\ compressTask.newPdfDoc = SourceOrder(compressTask.i - 1))
  /\ [](result # NoResult => result.pages = SourceOrder(NumPages(result.of)))
  /\ [](progress # NoProgress => progress.current <= progress.total)
  /\ [][(progress # NoProgress /\ progress' # NoProgress) =>
          progress'.current >= progress.current]_vars
  /\ [](loadTask.active =>
          /\ IndexAscending(loadTask.newPages)
          /\ \A j \in 1..Len(loadTask.newPages) :
                loadTask.newPages[j].index < loadTask.i - 1)
  /\ [](IndexAscending(pages))
  /\ [](loadingProgress <= 100)
  /\ [][(isLoading /\ isLoading') => loadingProgress' >= loadingProgress]_vars

C22_Witness ==
  /\ result # NoResult
  /\ Len(result.pages) = 2
  /\ compressorLast.op = "compressed"
  /\ Len(pages) = 2
  /\ loadingProgress = 100
  /\ ~isLoading

\* C23: no size estimation run and no compressPDF run are in progress at
\* the same time.
C23_EstimationAndCompressionExclusive ==
  ~(compressTask.active /\ estimations # <<>>)

\* No estimation starts while processing is true.
C23_NoEstimationStartsWhileProcessing ==
  ~(compressorLast.op = "estimate" /\ compressorLast.processing)

\* compressPDF does not start while an estimation is running.
C23_NoCompressionStartsWhileEstimating ==
  ~(compressorLast.op = "compressPDF" /\ compressorLast.estimating)

\* C24: a displayed result was produced from the currently selected file.
C24_ResultOfCurrentFile ==
  (compressorFile # NoFile /\ result # NoResult) =>
     result.of = compressorFile

(***************************************************************************)
(* Properties of the merge tool (ThumbnailSpec, MoveSpec).                 *)
(***************************************************************************)
\* A thumbnail completion leaves the ids of the list as they were, changes
\* no item but the one of its id, and that one only if it is in the list.
ThumbnailAppliedById ==
  [][mergeLast'.op = "thumbnail" =>
       /\ Ids(items') = Ids(items)
       /\ \A j \in 1..Len(items) :
             items[j].id # mergeLast'.id => items'[j] = items[j]]_vars

\* C25: once every thumbnail of a handleFileChange call has settled, every
\* item of that call still in the list has isLoadingPreview = false.
C25_SettledBatchNotLoading ==
  \A batch \in thumbnails :
     batch.left = <<>> =>
        \A j \in 1..Len(items) :
           items[j].id \in {batch.ids[h] : h \in 1..Len(batch.ids)} =>
              ~items[j].isLoadingPreview

\* C28: moveItem(index, direction) at the first item to the left or at the
\* last to the right changes neither the list nor the merged result; every
\* other move exchanges the ids at index and at its neighbour, leaves the
\* other positions and the length as they were and clears mergedPdfUrl; and
\* a left move of an item followed by a right move of it gives the list
\* back.
C28_MoveItemAdjacentSwap ==
  /\ [][mergeLast'.op = "moveItem" =>
          LET index == mergeLast'.index
              left == mergeLast'.direction = "left"
              neighbour == IF left THEN index - 1 ELSE index + 1
          IN IF (left /\ index = 0) \/ (~left /\ index = Len(items) - 1)
             THEN UNCHANGED <<items, mergedPdfUrl>>
             ELSE /\ Len(items') = Len(items)
                  /\ items'[index + 1].id = items[neighbour + 1].id
                  /\ items'[neighbour + 1].id = items[index + 1].id
                  /\ \A j \in 1..Len(items) :
                        j \notin {index + 1, neighbour + 1} =>
                           items'[j].id = items[j].id
                  /\ mergedPdfUrl' = NoUrl]_vars
  /\ [](\A index \in 1..(Len(items) - 1) :
          MovedItems(MovedItems(items, index, "left"), index - 1, "right")
            = items)

C28_Witness ==
  /\ mergeLast.op = "moveItem"
  /\ ~mergeLast.returned
  /\ mergeLast.index = 2
  /\ mergeLast.direction = "left"
  /\ Ids(items) = <<1, 3, 2>>
  /\ mergedPdfUrl = NoUrl

(***************************************************************************)
(* Properties of the watermark tool (WatermarkSpec) and of App (AppSpec).  *)
(***************************************************************************)
\* C26: a result is offered for download only if it was produced with the
\* settings as they are now.
C26_ResultOfCurrentSettings ==
  (watermarkFile # NoFile /\ watermarkResultUrl # NoUrl) =>
     watermarkResultUrl.settings = settings

NoDuplicates(list) ==
  \A j, h \in 1..Len(list) : j # h => list[j] # list[h]

\* C29: after any navigateTo calls from the empty history, recentTools has
\* no duplicates, at most 5 entries and no DASHBOARD; its head is the view
\* opened; the text in localStorage reads back as the same list;
\* navigateTo(DASHBOARD) leaves the list as it was, and any other view goes
\* in front of the rest, which keep their order.
C29_RecentToolsHistory ==
  /\ [](/\ NoDuplicates(recentTools)
        /\ Len(recentTools) <= 5
        /\ \A j \in 1..Len(recentTools) : recentTools[j] # "DASHBOARD"
        /\ currentView # "DASHBOARD" => recentTools[1] = currentView
        /\ SavedRecent(localStorage) = recentTools)
  /\ [][/\ currentView' = "DASHBOARD" => recentTools' = recentTools
        /\ currentView' # "DASHBOARD" =>
              /\ recentTools'[1] = currentView'
              /\ \A j, h \in 1..Len(recentTools') :
                    (1 < j /\ j < h) =>
                       \E a, b \in 1..Len(recentTools) :
                          /\ a < b
                          /\ recentTools[a] = recentTools'[j]
                          /\ recentTools[b] = recentTools'[h]]_vars

C29_Witness ==
  /\ Len(recentTools) = 5
  /\ Len(localStorage) = 11
  /\ currentView = "DASHBOARD"
  /\ recentTools[1] = "PDF_SPLIT"
  /\ recentTools[5] = "QR_CODE"

(***************************************************************************)
(* The busy flags (BusySpec).                                              *)
(***************************************************************************)
\* C21: a busy flag is set only while a call of its action is in flight,
\* and each of loadPDF, processPDF (split), compressPDF, mergePDFs and
\* processPDF (watermark), once it has set its flag, eventually clears it.
C21_StartedActionsEnd ==
  /\ [](/\ isLoading => loadTask.active
        /\ isProcessing => procTask.active
        /\ processing => compressTask.active
        /\ mergeIsProcessing => mergeTask.active
        /\ watermarkIsProcessing => watermarkTask.active)
  /\ isLoading ~> ~isLoading
  /\ isProcessing ~> ~isProcessing
  /\ processing ~> ~processing
  /\ mergeIsProcessing ~> ~mergeIsProcessing
  /\ watermarkIsProcessing ~> ~watermarkIsProcessing

C21_Witness ==
  /\ compressorLast.op = "compressed"
  /\ compressorLast.alert # ""
  /\ ~processing
  /\ ~compressTask.active

(***************************************************************************)
(* Termination of applyRange (LoopSpec).                                   *)
(***************************************************************************)
\* The numbers of a range string are all finite.
FiniteInput(input) ==
  LET parts == Split(input, ",")
  IN \A k \in 1..Len(parts) :
        \A h \in 1..Len(RangeOf(parts[k])) : RangeOf(parts[k])[h] # Infinity

\* C30: an applyRange call that has started finishes, whatever the range
\* string and the page count.
C30_ApplyRangeTerminates == applyTask.active ~> ~applyTask.active

\* An applyRange call over finite numbers finishes, however large they are.
C30_FiniteRangeTerminates ==
  (applyTask.active /\ FiniteInput(rangeInput)) ~> ~applyTask.active

(***************************************************************************)
(* Properties of the fixed mode (FreezeSpec).                              *)
(***************************************************************************)
\* The closure with every selected flag cleared.
Unselected(c) ==
  [c EXCEPT !.pages = [j \in 1..Len(c.pages) |->
                         [c.pages[j] EXCEPT !.selected = FALSE]]]

\* C27: every step taken while the editor is in fixed mode, a click on a
\* page included, leaves the page list with every selected flag as it was; so
\* does every change of mode, hence custom -> fixed -> custom keeps the
\* selection; and the result of a fixed-mode processPDF is the one it gives
\* with no page selected.
C27_FixedModeFreezesSelection ==
  /\ [][/\ (EditorShown /\ mode = "fixed") => pages' = pages
        /\ mode' # mode => pages' = pages]_vars
  /\ []((Succeeded /\ last.closure.mode = "fixed") =>
          resultUrl = ProcessOutcome(Unselected(last.closure),
                                     last.timestamp).url)

C27_Witness ==
  /\ last.op = "togglePageSelection"
  /\ last.returned
  /\ mode = "fixed"
  /\ SelectedSet(pages) = {1}
====
